---- MODULE Spec2Model ----
(***************************************************************************)
(* A model of the inference orchestration layer of multitenant-ai:         *)
(*   - RateLimiter.check_rate_limit over the Redis counter store           *)
(*     (backend/app/services/rate_limiter.py),                             *)
(*   - the chat endpoint (backend/app/api/v1/endpoints/chat.py) and        *)
(*     AIService.generate_response (backend/app/services/ai_service.py),   *)
(*   - MultiProviderAIService and EnterpriseAIService                      *)
(*     (backend/app/services/multi_provider_ai_service.py,                 *)
(*      backend/app/services/enterprise_ai_service.py).                    *)
(*                                                                         *)
(* Python values are encoded as follows.  An Optional[int] is <<>> for     *)
(* None and <<n>> for the integer n.  Money is counted in micro-dollars    *)
(* (1e-6 USD, the resolution of round(x, 6)); a price per 1000 tokens is   *)
(* given in units of 1e-5 USD, so that tokens * price is an exact number   *)
(* of 1e-8 USD.                                                            *)
(***************************************************************************)
EXTENDS Integers, Sequences, FiniteSets, TLC

VARIABLES
    \* ---- RateLimiter and the chat endpoint (specification Spec) ----
    now,          \* int(time.time()), seconds
    ticks,        \* number of clock steps taken so far (bounds the run)
    redis,        \* the Redis store: key -> [count, expire]
    limits,       \* Tenant.rate_limit_per_minute / rate_limit_per_hour, per tenant
    rl_last,      \* the last check_rate_limit call: its arguments and result
    rl_window,    \* per (tenant, user): the calls made in the current minute bucket
    rl_calls,     \* number of check_rate_limit calls made so far (bounds the run)
    chat_last,    \* the last chat request: its arguments and outcome
    chat_window,  \* per (tenant, user): chat requests admitted in the current minute bucket
    chat_calls,   \* number of chat requests made so far (bounds the run)
    \* ---- _calculate_cost (specification SpecCost) ----
    cost_args,    \* the arguments of the _calculate_cost calls
    cost_res,     \* their results, in micro-dollars
    \* ---- MultiProviderAIService (specification SpecMulti) ----
    tenant_config,       \* what _get_tenant_config answers, per tenant
    huggingface_client,  \* whether self.huggingface_client was created
    mreq,                \* the generate_response calls, by request slot
    metrics,             \* self.metrics
    list_last,           \* the last get_available_models call and its result
    \* ---- EnterpriseAIService (SpecEnterprise, SpecConcurrency) ----
    ereq,                \* the generate_response calls, by request slot
    emetrics,            \* self.metrics
    request_queue,       \* self.request_queue: the queued requests' models
    in_flight,           \* per model: invoke_model calls running in self.executor
    executor_backlog,    \* models of the invoke_model calls waiting for a worker
    \* ---- RAGService (specification SpecRag) ----
    chroma,              \* the documents of the ChromaDB collections
    next_doc,            \* number of documents stored so far (their ids are fresh)
    rag_last,            \* the last RAGService call and its result
    ai_last,             \* the last AIService.generate_response call with retrieval
    \* ---- the FastAPI application (specification SpecApp) ----
    http_last,           \* the last GET request and its response
    http_count,          \* number of requests served so far (bounds the run)
    \* ---- concurrent callers of the rate limiter (SpecRateConcurrent) ----
    rl_proc,             \* per caller: its check_rate_limit call and where it stands
    \* ---- admitted calls over time (specification SpecBurst) ----
    rl_admitted,         \* per (tenant, user): the times of the calls the per-minute window admitted
    \* ---- self.metrics with its average latency (specification SpecMetrics) ----
    lat_metrics,         \* self.metrics: the counters and average_latency, a fraction <<numerator, denominator>>
    lat_samples,         \* the processing times of the successful requests, in order
    \* ---- assembly of the messages (specification SpecAssemble) ----
    asm_in,              \* the call: the service, the prompt and the conversation history
    asm_out,             \* the messages assembled for it (None before the call)
    \* ---- the chat endpoint and its tables (specification SpecChatDb) ----
    prompt_logs,         \* the rows of prompt_logs, in order of insertion
    conversations,       \* the rows of conversations, by id
    db_last,             \* the last chat request: its arguments, what it wrote and its outcome
    db_calls,            \* number of chat requests so far (bounds the run)
    \* ---- the tenants table and its admin endpoints (specification SpecTenants) ----
    tenant_rows,         \* the rows of tenants, by id
    tn_last,             \* the last admin request and its answer
    tn_calls             \* number of admin requests so far (bounds the run)

rateVars == <<now, ticks, redis, limits, rl_last, rl_window, rl_calls>>
chatVars == <<chat_last, chat_window, chat_calls>>
costVars == <<cost_args, cost_res>>
multiVars == <<tenant_config, huggingface_client, mreq, metrics, list_last>>
entVars == <<ereq, emetrics, request_queue, in_flight, executor_backlog>>
ragVars == <<chroma, next_doc, rag_last, ai_last>>
appVars == <<http_last, http_count>>
procVars == <<rl_proc>>
burstVars == <<rl_admitted>>
latVars == <<lat_metrics, lat_samples>>
asmVars == <<asm_in, asm_out>>
dbVars == <<prompt_logs, conversations, db_last, db_calls>>
tenVars == <<tenant_rows, tn_last, tn_calls>>
vars == <<rateVars, chatVars, costVars, multiVars, entVars, ragVars, appVars, procVars, burstVars, latVars, asmVars, dbVars, tenVars>>

-----------------------------------------------------------------------------
(* Bounds of the model                                                     *)

TickStep == 30      \* seconds the clock advances in one step
MaxTicks == 2       \* clock steps per run
MaxLimit == 2       \* largest per-minute limit a tenant is configured with
MaxCalls == 4       \* calls of check_rate_limit per run
MaxChats == 3       \* chat requests per run
MaxTokens == 3      \* largest token count of one _calculate_cost call
NReq == 2           \* generate_response calls per run of a service
MaxInProgress == 31 \* generate_response calls in progress at once (SpecConcurrency)
MaxDocs == 2        \* documents stored per run of the retrieval store
MaxRequests == 4    \* GET requests per run of the application
NCallers == 2       \* concurrent callers of check_rate_limit
MaxCompleted == 4   \* generate_response calls metered per run
MaxLatency == 3     \* largest processing time of one request
MaxHistory == 22    \* longest conversation history of one call
MaxDbChats == 3     \* chat requests per run of the endpoint with its tables
MaxTenantOps == 3   \* admin requests per run of the tenants endpoints

Tenants == {"acme", "globex"}
Users == {1}
\* int(time.time()) at the start of a run: at the start of an hour bucket and
\* one minute before the end of one, so that the hour bucket rolls over.
StartTimes == {0, 3540}

-----------------------------------------------------------------------------
(* Python helpers                                                          *)

None == <<>>
Some(n) == <<n>>
\* `if limit:` on an Optional[int]: None and 0 are both falsy.
TruthyNotNone(o) == o # None
Truthy(o) == o # None /\ o[1] # 0
Min(a, b) == IF a <= b THEN a ELSE b

-----------------------------------------------------------------------------
(* rate_limiter.py                                                         *)

MinuteSeconds == 60      \* current_time // 60
HourSeconds == 3600      \* current_time // 3600
MinuteTTL == 60          \* pipe.expire(minute_key, 60)
HourTTL == 3600          \* pipe.expire(hour_key, 3600)

\* f"rate_limit:{tenant_id}:{user_id}:minute:{current_time // 60}"
MinuteKeyNoBucket(tenant_id, user_id, current_time) ==
    <<tenant_id, user_id, "minute", 0>>
minute_key(tenant_id, user_id, current_time) ==
    <<tenant_id, user_id, "minute", current_time \div MinuteSeconds>>

\* f"rate_limit:{tenant_id}:{user_id}:hour:{current_time // 3600}"
hour_key(tenant_id, user_id, current_time) ==
    <<tenant_id, user_id, "hour", current_time \div HourSeconds>>

\* A key is live until its time-to-live has run out.
Live(store, key, time) == key \in DOMAIN store /\ store[key].expire > time

\* redis_client.get(key): None for a missing or expired key, else the count.
RedisGetMiss(store, key, time) == None
redis_get(store, key, time) ==
    IF Live(store, key, time) THEN Some(store[key].count) ELSE None

\* pipe.incr(key); pipe.expire(key, ttl); pipe.execute()
redis_incr_expire(store, key, ttl, time) ==
    LET old == IF Live(store, key, time) THEN store[key].count ELSE 0
    IN  [k \in DOMAIN store \cup {key} |->
            IF k = key THEN [count |-> old + 1, expire |-> time + ttl]
            ELSE store[k]]

\* Redis drops the keys whose time-to-live has run out.
redis_purge(store, time) ==
    [k \in {x \in DOMAIN store : store[x].expire > time} |-> store[k]]

\* `current_count and int(current_count) >= limit`
LimitReachedStrict(current_count, limit) ==
    current_count # None /\ current_count[1] > limit[1]
limit_reached(current_count, limit) ==
    current_count # None /\ current_count[1] >= limit[1]

\* RateLimiter.check_rate_limit: the result and the store it leaves behind.
check_rate_limit(store, tenant_id, user_id, limit_per_minute, limit_per_hour, current_time) ==
    LET mk == minute_key(tenant_id, user_id, current_time)
        hk == hour_key(tenant_id, user_id, current_time)
        minuteRejected ==
            /\ Truthy(limit_per_minute)
            /\ limit_reached(redis_get(store, mk, current_time), limit_per_minute)
        s1 == IF Truthy(limit_per_minute) /\ ~minuteRejected
              THEN redis_incr_expire(store, mk, MinuteTTL, current_time)
              ELSE store
        hourRejected ==
            /\ ~minuteRejected
            /\ Truthy(limit_per_hour)
            /\ limit_reached(redis_get(s1, hk, current_time), limit_per_hour)
        s2 == IF Truthy(limit_per_hour) /\ ~minuteRejected /\ ~hourRejected
              THEN redis_incr_expire(s1, hk, HourTTL, current_time)
              ELSE s1
    IN  [result |-> ~minuteRejected /\ ~hourRejected, store |-> s2]

-----------------------------------------------------------------------------
(* State of the rate limiter runs                                          *)

Pairs == Tenants \X Users

\* The record of the calls one (tenant, user) made in one minute bucket with
\* the tenant's per-minute limit: how many, how many returned True, and
\* whether any of them also gave a per-hour limit.
\* `after_reject` says that the (tenant, user)'s previous window ended with a
\* rejected call.
EmptyWindow == [bucket |-> -1, calls |-> 0, admits |-> 0, hourly |-> FALSE,
                after_reject |-> FALSE]

NoCall == [tenant |-> "", user |-> 0, minute |-> None, hour |-> None,
           result |-> FALSE]

RateInit ==
    /\ now \in StartTimes
    /\ ticks = 0
    /\ redis = <<>>
    /\ \E l \in 1..MaxLimit :
         limits = [t \in Tenants |-> [minute |-> l, hour |-> MaxLimit + 1]]
    /\ rl_calls = 0
    /\ rl_last = NoCall
    /\ rl_window = [p \in Pairs |-> EmptyWindow]

\* The clock advances; expired keys disappear from the store.
Tick ==
    /\ ticks < MaxTicks
    /\ now' = now + TickStep
    /\ ticks' = ticks + 1
    /\ redis' = redis_purge(redis, now + TickStep)
    /\ UNCHANGED <<limits, rl_last, rl_window, rl_calls, chatVars, costVars, tenVars, dbVars, asmVars, latVars, burstVars, procVars, appVars, ragVars, multiVars, entVars>>

\* The window record after one more call at `time`.
WindowAfter(w, time, counted, result, hourly) ==
    LET b == time \div MinuteSeconds
        base == IF w.bucket = b THEN w
                ELSE [EmptyWindow EXCEPT !.bucket = b,
                                         !.after_reject = w.calls > w.admits]
    IN  IF ~counted THEN w
        ELSE [base EXCEPT !.calls = @ + 1,
                          !.admits = @ + (IF result THEN 1 ELSE 0),
                          !.hourly = @ \/ hourly]

\* One call of check_rate_limit(tenant_id, user_id, limit_per_minute,
\* limit_per_hour): each limit is left out (None), 0, or the tenant's.
CheckRateLimit(t, u, lpm, lph) ==
    LET r == check_rate_limit(redis, t, u, lpm, lph, now)
        w == rl_window[<<t, u>>]
    IN  /\ rl_calls < MaxCalls
        /\ rl_calls' = rl_calls + 1
        /\ redis' = r.store
        /\ rl_last' = [tenant |-> t, user |-> u, minute |-> lpm, hour |-> lph,
                       result |-> r.result]
        /\ rl_window' = [rl_window EXCEPT ![<<t, u>>] =
                            WindowAfter(w, now, Truthy(lpm), r.result, Truthy(lph))]
        /\ UNCHANGED <<now, ticks, limits, chatVars, costVars, tenVars, dbVars, asmVars, latVars, burstVars, procVars, appVars, ragVars, multiVars, entVars>>

\* The limits a caller passes: left out (None), 0, or the tenant's.
LimitArgs(t) ==
    {<<None, None>>, <<Some(0), Some(0)>>,
     <<Some(limits[t].minute), None>>, <<None, Some(limits[t].hour)>>,
     <<Some(limits[t].minute), Some(limits[t].hour)>>}

-----------------------------------------------------------------------------
(* rate_limiter.py: the calls a per-minute limit admits, with their times  *)

BurstIdle == rl_admitted = [p \in Pairs |-> <<>>]

\* check_rate_limit called with the tenant's per-minute limit (with or
\* without the per-hour limit); the time of a call that returns True is
\* kept.
CheckRateLimitTimed(t, u, lpm, lph) ==
    LET r == check_rate_limit(redis, t, u, lpm, lph, now)
        w == rl_window[<<t, u>>]
    IN  /\ rl_calls < MaxCalls
        /\ Truthy(lpm)
        /\ rl_calls' = rl_calls + 1
        /\ redis' = r.store
        /\ rl_last' = [tenant |-> t, user |-> u, minute |-> lpm, hour |-> lph,
                       result |-> r.result]
        /\ rl_window' = [rl_window EXCEPT ![<<t, u>>] =
                            WindowAfter(w, now, TRUE, r.result, Truthy(lph))]
        /\ rl_admitted' = [rl_admitted EXCEPT ![<<t, u>>] =
                              IF r.result THEN Append(@, now) ELSE @]
        /\ UNCHANGED <<now, ticks, limits, chatVars, costVars, tenVars, dbVars, asmVars, latVars, procVars, appVars, ragVars, multiVars, entVars>>

\* The calls of one (tenant, user) admitted in the 60 seconds from `start`.
admitted_in_interval(times, start) ==
    {j \in 1..Len(times) : times[j] >= start /\ times[j] < start + MinuteSeconds}

-----------------------------------------------------------------------------
(* rate_limiter.py: concurrent callers on the shared store                 *)

\* The server processes that call check_rate_limit on the same Redis.
Callers == 1..NCallers

IdleCaller == [pc |-> "idle", win |-> "minute", tenant |-> "", user |-> 0,
               minute |-> None, hour |-> None, current_time |-> 0, result |-> FALSE]

ProcIdle == rl_proc = [p \in Callers |-> IdleCaller]

\* The key, the limit and the time-to-live of the window a caller is at.
caller_key(c) ==
    IF c.win = "minute" THEN minute_key(c.tenant, c.user, c.current_time)
    ELSE hour_key(c.tenant, c.user, c.current_time)
caller_limit(c) == IF c.win = "minute" THEN c.minute ELSE c.hour
caller_ttl(c) == IF c.win = "minute" THEN MinuteTTL ELSE HourTTL

\* A caller enters check_rate_limit: current_time = int(time.time()), and
\* the first limit that is given decides the first window.
RlCall(p, t, u, lpm, lph) ==
    LET c == [IdleCaller EXCEPT !.tenant = t, !.user = u, !.minute = lpm, !.hour = lph,
                                !.current_time = now]
    IN  /\ rl_proc[p].pc \in {"idle", "done"}
        /\ rl_calls < MaxCalls
        /\ rl_calls' = rl_calls + 1
        /\ rl_proc' = [rl_proc EXCEPT ![p] =
                          IF Truthy(lpm) THEN [c EXCEPT !.pc = "get", !.win = "minute"]
                          ELSE IF Truthy(lph) THEN [c EXCEPT !.pc = "get", !.win = "hour"]
                          ELSE [c EXCEPT !.pc = "done", !.result = TRUE]]
        /\ UNCHANGED <<now, ticks, redis, limits, rl_last, rl_window, chatVars, costVars, tenVars, dbVars, asmVars, latVars, burstVars,
                       multiVars, entVars, ragVars, appVars>>

\* redis_client.get(key) and the comparison with the limit.
RlGet(p) ==
    LET c == rl_proc[p]
    IN  /\ c.pc = "get"
        /\ rl_proc' = [rl_proc EXCEPT ![p] =
                          IF limit_reached(redis_get(redis, caller_key(c), now),
                                           caller_limit(c))
                          THEN [c EXCEPT !.pc = "done", !.result = FALSE]
                          ELSE [c EXCEPT !.pc = "incr"]]
        /\ UNCHANGED <<rateVars, chatVars, costVars, tenVars, dbVars, asmVars, latVars, burstVars, multiVars, entVars, ragVars, appVars>>

\* pipe.incr(key); pipe.expire(key, ttl); pipe.execute(), and the move to the
\* per-hour window or the return of True.
RlIncr(p) ==
    LET c == rl_proc[p]
    IN  /\ c.pc = "incr"
        /\ redis' = redis_incr_expire(redis, caller_key(c), caller_ttl(c), now)
        /\ rl_proc' = [rl_proc EXCEPT ![p] =
                          IF c.win = "minute" /\ Truthy(c.hour)
                          THEN [c EXCEPT !.pc = "get", !.win = "hour"]
                          ELSE [c EXCEPT !.pc = "done", !.result = TRUE]]
        /\ UNCHANGED <<now, ticks, limits, rl_last, rl_window, rl_calls, chatVars, costVars, tenVars, dbVars, asmVars, latVars, burstVars,
                       multiVars, entVars, ragVars, appVars>>

-----------------------------------------------------------------------------
(* core/exceptions.py                                                      *)

\* exceptions.py imports Request and HTTPException from fastapi, and not
\* `status`, which the constructors of TenantNotFoundError,
\* RateLimitExceededError and AIServiceError read.
StatusImported == FALSE

\* What `raise cls(...)` raises: the constructor evaluates
\* status.HTTP_..., a NameError when `status` is not bound.
Raise(cls) == IF StatusImported THEN cls ELSE "NameError"

-----------------------------------------------------------------------------
(* ai_service.py                                                           *)

Sonnet == "anthropic.claude-3-sonnet-20240229-v1:0"
Haiku == "anthropic.claude-3-haiku-20240307-v1:0"
Llama70 == "meta.llama-2-70b-chat-v1"
Llama13 == "meta.llama-2-13b-chat-v1"

\* AIService.model_configs: prices in 1e-5 USD per 1000 tokens.
AIModelConfigs ==
    (Sonnet  :> [max_tokens |-> 4000, cost_per_1k_input |-> 300, cost_per_1k_output |-> 1500]) @@
    (Haiku   :> [max_tokens |-> 4000, cost_per_1k_input |-> 25,  cost_per_1k_output |-> 125]) @@
    (Llama70 :> [max_tokens |-> 4000, cost_per_1k_input |-> 165, cost_per_1k_output |-> 219]) @@
    (Llama13 :> [max_tokens |-> 4000, cost_per_1k_input |-> 75,  cost_per_1k_output |-> 100])

\* Model ids a caller may send: the registry's, and ids that are not in it.
ClaudeV2 == "anthropic.claude-v2"
Gpt4 == "gpt-4"
NoSuchModel == "no-such-model"
AIModelIds == DOMAIN AIModelConfigs \cup {ClaudeV2, Gpt4, NoSuchModel}

\* model.startswith(prefix), for the ids of the model.
startswith(model, prefix) ==
    \/ prefix = "anthropic" /\ model \in {Sonnet, Haiku, ClaudeV2}
    \/ prefix = "meta" /\ model \in {Llama70, Llama13}

\* What the provider does with one invoke_model call.
ProviderResults == {"ok", "error", "malformed"}

\* self.model_configs.get(model, self.model_configs[Sonnet]): the id whose
\* configuration is used.
ai_config_of(model) == IF model \in DOMAIN AIModelConfigs THEN model ELSE Sonnet

\* AIService.generate_response.  `provider` is what Bedrock answers if it is
\* called.  The result names what the caller sees (an AIResponse, or the
\* exception that escapes), how many invoke_model calls were issued, the id
\* whose configuration was used, and whether the interaction was stored.
ai_generate_response(model, use_rag, long_prompt, provider) ==
    LET supported == startswith(model, "anthropic") \/ startswith(model, "meta")
        succeeded == supported /\ provider = "ok"
    IN  [outcome |-> IF succeeded THEN "AIResponse"
                     \* raise AIServiceError(...) inside the try block is caught by
                     \* `except Exception`, which raises AIServiceError again.
                     ELSE Raise("AIServiceError"),
         provider_calls |-> IF supported THEN 1 ELSE 0,
         config_used |-> ai_config_of(model),
         rag_lookups |-> IF use_rag THEN 1 ELSE 0,
         stored |-> succeeded /\ use_rag /\ long_prompt]

NotCalled == [outcome |-> "not called", provider_calls |-> 0, config_used |-> "",
              rag_lookups |-> 0, stored |-> FALSE]

-----------------------------------------------------------------------------
(* multi_provider_ai_service.py: the model registry and _calculate_cost    *)

Gpt4Turbo == "gpt-4-turbo"
Gpt35 == "gpt-3.5-turbo"
DialoGPT == "microsoft/DialoGPT-large"
FlanT5 == "google/flan-t5-xxl"
CustomModel == "custom-tenant-model"

\* MultiProviderAIService.model_configs: prices in 1e-5 USD per 1000 tokens.
MultiModelConfigs ==
    (Sonnet :> [provider |-> "bedrock", cost_per_1k_input |-> 300,
                cost_per_1k_output |-> 1500, max_concurrent |-> 50, priority |-> 1]) @@
    (Haiku :> [provider |-> "bedrock", cost_per_1k_input |-> 25,
               cost_per_1k_output |-> 125, max_concurrent |-> 100, priority |-> 2]) @@
    (Llama70 :> [provider |-> "bedrock", cost_per_1k_input |-> 165,
                 cost_per_1k_output |-> 219, max_concurrent |-> 30, priority |-> 3]) @@
    (Gpt4 :> [provider |-> "openai", cost_per_1k_input |-> 3000,
              cost_per_1k_output |-> 6000, max_concurrent |-> 20, priority |-> 1]) @@
    (Gpt4Turbo :> [provider |-> "openai", cost_per_1k_input |-> 1000,
                   cost_per_1k_output |-> 3000, max_concurrent |-> 30, priority |-> 2]) @@
    (Gpt35 :> [provider |-> "openai", cost_per_1k_input |-> 150,
               cost_per_1k_output |-> 200, max_concurrent |-> 50, priority |-> 3]) @@
    (DialoGPT :> [provider |-> "huggingface", cost_per_1k_input |-> 0,
                  cost_per_1k_output |-> 0, max_concurrent |-> 10, priority |-> 4]) @@
    (FlanT5 :> [provider |-> "huggingface", cost_per_1k_input |-> 0,
                cost_per_1k_output |-> 0, max_concurrent |-> 10, priority |-> 4]) @@
    (CustomModel :> [provider |-> "custom", cost_per_1k_input |-> 0,
                     cost_per_1k_output |-> 0, max_concurrent |-> 5, priority |-> 1])

\* round(x, digits) of x = n * 1e-8 USD, as a number of micro-dollars.  x is a
\* binary float: where n * 1e-8 lies exactly between two results, the float
\* lies on either side of the tie, and `tie_up` says on which.
round_usd(n, unit, tie_up) ==
    LET q == n \div unit
        r == n % unit
        up == (2 * r > unit) \/ (2 * r = unit /\ tie_up)
    IN  (unit \div 100) * (IF up THEN q + 1 ELSE q)

\* n * 1e-8 USD lies exactly between two multiples of 1e-6 USD.
is_tie(n) == n % 100 = 50

\* The exact sum, in 1e-8 USD.
cost_units(model_config, input_tokens, output_tokens) ==
    input_tokens * model_config.cost_per_1k_input
        + output_tokens * model_config.cost_per_1k_output

\* _calculate_cost (the same in AIService, EnterpriseAIService and
\* MultiProviderAIService):
\*   round((in / 1000) * cost_per_1k_input + (out / 1000) * cost_per_1k_output, 6)
CalculateCostRound5(model_config, input_tokens, output_tokens, tie_up) ==
    round_usd(cost_units(model_config, input_tokens, output_tokens), 1000, tie_up)
calculate_cost(model_config, input_tokens, output_tokens, tie_up) ==
    round_usd(cost_units(model_config, input_tokens, output_tokens), 100, tie_up)

NoCostArgs == [model |-> "", a1 |-> 0, b1 |-> 0, a2 |-> 0, b2 |-> 0, tie_up |-> <<>>]
NoCostRes == [done |-> FALSE, zero |-> 0, first |-> 0, second |-> 0, whole |-> 0,
              tied |-> FALSE]

CostIdle ==
    /\ cost_args = NoCostArgs
    /\ cost_res = NoCostRes

\* The arguments: a model of the registry and two pairs of token counts.
CostInit ==
    /\ cost_args \in [model : DOMAIN MultiModelConfigs \cup DOMAIN AIModelConfigs,
                       a1 : 0..MaxTokens, b1 : 0..MaxTokens,
                       a2 : 0..MaxTokens, b2 : 0..MaxTokens,
                       tie_up : [1..3 -> BOOLEAN]]
    /\ cost_res = NoCostRes

cost_config(model) ==
    IF model \in DOMAIN MultiModelConfigs THEN MultiModelConfigs[model]
    ELSE AIModelConfigs[model]

\* _calculate_cost applied to (0, 0), to each pair and to their sum.
CalculateCost ==
    LET c == cost_config(cost_args.model)
        a == cost_args
    IN  /\ ~cost_res.done
        /\ cost_res' = [done |-> TRUE,
                        zero |-> calculate_cost(c, 0, 0, a.tie_up[1]),
                        first |-> calculate_cost(c, a.a1, a.b1, a.tie_up[1]),
                        second |-> calculate_cost(c, a.a2, a.b2, a.tie_up[2]),
                        whole |-> calculate_cost(c, a.a1 + a.a2, a.b1 + a.b2, a.tie_up[3]),
                        tied |-> \/ is_tie(cost_units(c, a.a1, a.b1))
                                 \/ is_tie(cost_units(c, a.a2, a.b2))
                                 \/ is_tie(cost_units(c, a.a1 + a.a2, a.b1 + a.b2))]
        /\ UNCHANGED <<rateVars, chatVars, cost_args, tenVars, dbVars, asmVars, latVars, burstVars, procVars, appVars, ragVars, multiVars, entVars>>

-----------------------------------------------------------------------------
(* multi_provider_ai_service.py: generate_response                         *)

\* _get_tenant_config answers the wildcard configuration for every tenant.
DefaultTenantConfig == [allowed_models |-> {"*"}, allowed_providers |-> {"*"}]

\* The tenant configurations of the runs: the one _get_tenant_config answers
\* today, and configurations of the tenant-config store it stands for
\* ("This would query the database for tenant configuration").
TenantConfigs ==
    {DefaultTenantConfig,
     [allowed_models |-> {Sonnet, Gpt4}, allowed_providers |-> {"*"}],
     [allowed_models |-> {"*"}, allowed_providers |-> {"bedrock"}],
     [allowed_models |-> {Sonnet, Gpt4}, allowed_providers |-> {"openai"}],
     [allowed_models |-> {}, allowed_providers |-> {}]}

\* Every configuration over two model ids, two providers and the wildcard.
PolicySpace ==
    [allowed_models : SUBSET {"*", Sonnet, Gpt4},
     allowed_providers : SUBSET {"*", "bedrock", "openai"}]

get_tenant_config(tenant_id) == tenant_config[tenant_id]

\* _check_tenant_model_access
CheckAccessModelsOnly(tenant_id, model, model_config) ==
    LET allowed_models == get_tenant_config(tenant_id).allowed_models
    IN  model \in allowed_models \/ "*" \in allowed_models
check_tenant_model_access(tenant_id, model, model_config) ==
    LET allowed_models == get_tenant_config(tenant_id).allowed_models
        allowed_providers == get_tenant_config(tenant_id).allowed_providers
        provider == model_config.provider
    IN  IF model \notin allowed_models /\ "*" \notin allowed_models THEN FALSE
        ELSE IF provider \notin allowed_providers /\ "*" \notin allowed_providers THEN FALSE
        ELSE TRUE

\* get_available_models(tenant_id): the ids of the models it lists.
get_available_models(tenant_id) ==
    LET allowed_models == get_tenant_config(tenant_id).allowed_models
    IN  {model_id \in DOMAIN MultiModelConfigs :
            model_id \in allowed_models \/ "*" \in allowed_models}

\* Model ids a caller may send: one id of the registry per provider, and an
\* id that is not in it.
MultiModelIds == {Sonnet, Gpt4, DialoGPT, CustomModel, NoSuchModel}

\* Retrieval of one call: off, on with a prompt of at most 50 characters, on
\* with a longer prompt (which is stored back after a success).
RagModes == {"off", "short", "long"}

Requests == 1..NReq

\* The tenant whose requests the runs follow; its configuration is the one
\* MultiInit varies.
RequestTenants == {"acme"}

IdleRequest == [pc |-> "idle", tenant |-> "", model |-> "", rag |-> "off",
                admitted |-> FALSE, rag_lookups |-> 0, assembled |-> FALSE,
                provider_calls |-> 0, stored |-> FALSE, metered |-> 0, outcome |-> ""]

NoMetrics == [total_requests |-> 0, successful_requests |-> 0, failed_requests |-> 0]

NoListing == [tenant |-> "", models |-> {}]

MultiIdle ==
    /\ tenant_config = [t \in Tenants |-> DefaultTenantConfig]
    /\ huggingface_client = FALSE
    /\ mreq = [r \in Requests |-> IdleRequest]
    /\ metrics = NoMetrics
    /\ list_last = NoListing

MultiInit ==
    /\ \E c \in TenantConfigs :
         tenant_config = [t \in Tenants |-> IF t \in RequestTenants THEN c
                                            ELSE DefaultTenantConfig]
    /\ huggingface_client \in BOOLEAN
    /\ mreq = [r \in Requests |-> IdleRequest]
    /\ metrics = NoMetrics
    /\ list_last = NoListing

\* _update_metrics: the counters.
update_metrics(m, success) ==
    [m EXCEPT !.total_requests = @ + 1,
              !.successful_requests = @ + (IF success THEN 1 ELSE 0),
              !.failed_requests = @ + (IF success THEN 0 ELSE 1)]

\* The except branch of generate_response for request q: it meters the
\* failure and raises AIServiceError.  `model_config` is "unbound" when the
\* failure came before its assignment and "None" for an unknown model, where
\* model_config.get(...) raises AttributeError before anything is metered.
multi_fail(r, q, model_config) ==
    IF model_config = "None"
    THEN /\ mreq' = [mreq EXCEPT ![r] = [q EXCEPT !.pc = "done",
                                                 !.outcome = "AttributeError"]]
         /\ UNCHANGED metrics
    ELSE /\ mreq' = [mreq EXCEPT ![r] = [q EXCEPT !.pc = "done", !.metered = @ + 1,
                                                 !.outcome = Raise("AIServiceError")]]
         /\ metrics' = update_metrics(metrics, FALSE)

\* `if not await self.rate_limiter.check_enterprise_rate_limit(...)`: the
\* request is refused when the rate limiter answers False.
RateLimitIgnored(admitted) == FALSE
rate_limit_refuses(admitted) == ~admitted

\* generate_response from its call to the provider call: the rate limit, the
\* registry lookup, the tenant's access, retrieval, assembly, and the
\* provider request.  `admitted` is what check_enterprise_rate_limit answers.
\* The calls take the request slots in order.
MultiGenerate(r, tenant_id, model, rag, admitted) ==
    LET q0 == [IdleRequest EXCEPT !.tenant = tenant_id, !.model = model, !.rag = rag,
                                  !.admitted = admitted]
        known == model \in DOMAIN MultiModelConfigs
        model_config == MultiModelConfigs[model]
        q1 == [q0 EXCEPT !.rag_lookups = IF rag = "off" THEN 0 ELSE 1,
                         !.assembled = TRUE]
    IN  /\ mreq[r].pc = "idle"
        /\ \A o \in Requests : o < r => mreq[o].pc # "idle"
        /\ IF rate_limit_refuses(admitted) THEN multi_fail(r, q0, "unbound")
           ELSE IF ~known THEN multi_fail(r, q0, "None")
           ELSE IF ~check_tenant_model_access(tenant_id, model, model_config)
                THEN multi_fail(r, q0, model)
           ELSE IF \/ model_config.provider = "bedrock"
                        /\ ~startswith(model, "anthropic") /\ ~startswith(model, "meta")
                   \/ model_config.provider = "huggingface" /\ ~huggingface_client
                THEN multi_fail(r, q1, model)
           ELSE /\ mreq' = [mreq EXCEPT ![r] = [q1 EXCEPT !.pc = "invoking",
                                                          !.provider_calls = 1]]
                /\ UNCHANGED metrics
        /\ UNCHANGED <<rateVars, chatVars, costVars, tenVars, dbVars, asmVars, latVars, burstVars, procVars, appVars, ragVars, entVars, tenant_config,
                       huggingface_client, list_last>>

\* The provider answers: the response is parsed, priced, metered, stored back
\* and returned; a provider error or a malformed body goes to the except
\* branch.
MultiProviderReturns(r, provider) ==
    LET q == mreq[r]
    IN  /\ q.pc = "invoking"
        /\ IF provider = "ok"
           THEN /\ mreq' = [mreq EXCEPT ![r] = [q EXCEPT !.pc = "done", !.metered = @ + 1,
                                                        !.stored = (q.rag = "long"),
                                                        !.outcome = "MultiProviderAIResponse"]]
                /\ metrics' = update_metrics(metrics, TRUE)
           ELSE multi_fail(r, q, q.model)
        /\ UNCHANGED <<rateVars, chatVars, costVars, tenVars, dbVars, asmVars, latVars, burstVars, procVars, appVars, ragVars, entVars, tenant_config,
                       huggingface_client, list_last>>

\* get_available_models(tenant_id)
ListModels(tenant_id) ==
    /\ list_last' = [tenant |-> tenant_id, models |-> get_available_models(tenant_id)]
    /\ UNCHANGED <<rateVars, chatVars, costVars, tenVars, dbVars, asmVars, latVars, burstVars, procVars, appVars, ragVars, entVars, tenant_config,
                   huggingface_client, mreq, metrics>>

-----------------------------------------------------------------------------
(* enterprise_ai_service.py                                                *)

\* EnterpriseAIService.model_configs: prices in 1e-5 USD per 1000 tokens.
EnterpriseModelConfigs ==
    (Sonnet :> [cost_per_1k_input |-> 300, cost_per_1k_output |-> 1500,
                max_concurrent |-> 50, priority |-> 1]) @@
    (Haiku :> [cost_per_1k_input |-> 25, cost_per_1k_output |-> 125,
               max_concurrent |-> 100, priority |-> 2]) @@
    (Llama70 :> [cost_per_1k_input |-> 165, cost_per_1k_output |-> 219,
                 max_concurrent |-> 30, priority |-> 3]) @@
    (Llama13 :> [cost_per_1k_input |-> 75, cost_per_1k_output |-> 100,
                 max_concurrent |-> 50, priority |-> 4])

\* self.model_configs.get(model, self.model_configs[Sonnet])
enterprise_config_of(model) ==
    IF model \in DOMAIN EnterpriseModelConfigs THEN EnterpriseModelConfigs[model]
    ELSE EnterpriseModelConfigs[Sonnet]

\* asyncio.Queue(maxsize=1000)
QueueMaxsize == 1000
\* ThreadPoolExecutor(max_workers=enterprise_settings.BEDROCK_MAX_CONCURRENT_REQUESTS)
BEDROCK_MAX_CONCURRENT_REQUESTS == 100

\* _check_concurrent_limits: "For now, return True".
check_concurrent_limits(model, model_config) == TRUE

\* What _check_concurrent_limits answers once it "would integrate with a
\* distributed counter (Redis)": True below the model's cap, False at it.
ConcurrencyAnswers == BOOLEAN

\* priority: int = 1, and a request of the next band.  The registry and
\* batch_generate (priority 2 by default) count 1 as the first band.
DefaultPriority == 1
Priorities == {DefaultPriority, DefaultPriority + 1}

\* asyncio.Queue: full() is qsize() >= maxsize, put_nowait appends to the
\* deque and get takes its left end, whatever the items hold.
queue_full(queue) == Len(queue) >= QueueMaxsize
queue_put(queue, item) == Append(queue, item)
queue_get(queue) == Head(queue)

\* The item generate_response puts on request_queue (the fields read here).
queue_item(request_id, model, priority) ==
    [request_id |-> request_id, model |-> model, priority |-> priority]

\* @retry(stop=stop_after_attempt(3), wait=wait_exponential(multiplier=1, min=4, max=10))
stop_after_attempt == 3
WaitMin == 4
WaitMax == 10

\* tenacity's stop_after_attempt: no attempt follows attempt `attempt_number`.
RetryStopAfterFour(attempt_number) == attempt_number > stop_after_attempt
retry_stop(attempt_number) == attempt_number >= stop_after_attempt

Max(a, b) == IF a >= b THEN a ELSE b

\* tenacity's wait_exponential: max(min, min(multiplier * 2 ** (attempt_number - 1), max)),
\* the seconds slept after attempt `attempt_number` failed.
wait_exponential(attempt_number) == Max(WaitMin, Min(2 ^ (attempt_number - 1), WaitMax))

\* Model ids a caller may send: one of the registry, one that is not in it and
\* passes the prefix test, one that neither is in it nor passes the test.
EnterpriseModelIds == {Llama70, ClaudeV2, Gpt4}

\* Retrieval of one call: off, or on with a prompt of more than 50 characters.
EntRagModes == {"off", "long"}

IdleEntRequest ==
    [pc |-> "idle", model |-> "", rag |-> "off", admitted |-> FALSE,
     attempt_number |-> 0, provider_calls |-> 0, fails |-> 0, waits |-> <<>>,
     timed_out |-> FALSE, stored |-> FALSE,
     outcome |-> "", cause |-> ""]

EntIdle ==
    /\ ereq = [r \in Requests |-> IdleEntRequest]
    /\ emetrics = NoMetrics
    /\ request_queue = <<>>
    /\ in_flight = [m \in DOMAIN EnterpriseModelConfigs |-> 0]
    /\ executor_backlog = <<>>

\* The except branch of generate_response: the failure is metered by the
\* caller of this operator, and AIServiceError is raised.  `cause` names the
\* exception that reached the branch.
ent_fail(q, cause) ==
    [q EXCEPT !.pc = "done", !.outcome = Raise("AIServiceError"), !.cause = cause]

\* An attempt of _generate_with_retry ended with an exception: tenacity stops
\* after the last attempt and raises RetryError, and otherwise sleeps
\* wait_exponential(attempt_number) seconds before the next attempt.
ent_attempt_failed(q) ==
    IF retry_stop(q.attempt_number) THEN ent_fail(q, "RetryError")
    ELSE [q EXCEPT !.pc = "backoff",
                   !.waits = Append(@, wait_exponential(q.attempt_number))]

\* One attempt of _generate_with_retry up to its await of the executor: the
\* request body is prepared by the model's prefix, and an id with neither
\* prefix raises inside the retried function.
ent_attempt(q) ==
    LET a == [q EXCEPT !.attempt_number = @ + 1]
    IN  IF startswith(q.model, "anthropic") \/ startswith(q.model, "meta")
        THEN [a EXCEPT !.pc = "invoking", !.provider_calls = @ + 1]
        ELSE ent_attempt_failed(a)

\* The new state of slot r, with the metering of a call that ended.
ent_step(r, q) ==
    /\ ereq' = [ereq EXCEPT ![r] = q]
    /\ emetrics' = IF q.pc # "done" THEN emetrics
                   ELSE update_metrics(emetrics, q.outcome = "EnterpriseAIResponse")

\* generate_response from its call to the first await of the provider: the
\* rate limit, the registry lookup, the concurrency check, retrieval,
\* assembly and the first attempt.  `admitted` is what
\* check_enterprise_rate_limit answers and `can_process` what
\* _check_concurrent_limits answers; the slot number stands for the
\* request_id.  The calls take the request slots in order.
EntGenerate(r, model, rag, admitted, priority, can_process) ==
    LET q0 == [IdleEntRequest EXCEPT !.model = model, !.rag = rag, !.admitted = admitted]
    IN  /\ ereq[r].pc = "idle"
        /\ (r - 1) \in DOMAIN ereq => ereq[r - 1].pc # "idle"
        /\ IF ~admitted
           THEN ent_step(r, ent_fail(q0, "rate_limit")) /\ UNCHANGED request_queue
           ELSE IF ~can_process
                THEN IF queue_full(request_queue)
                     \* await request_queue.put(...) suspends until the queue
                     \* has room
                     THEN /\ ent_step(r, [q0 EXCEPT !.pc = "putting"])
                          /\ UNCHANGED request_queue
                     \* the item is put, then _process_queued_request raises
                     ELSE /\ request_queue' =
                                 queue_put(request_queue, queue_item(r, model, priority))
                          /\ ent_step(r, ent_fail(q0, "queue"))
           ELSE ent_step(r, ent_attempt(q0)) /\ UNCHANGED request_queue
        /\ UNCHANGED <<rateVars, chatVars, costVars, tenVars, dbVars, asmVars, latVars, burstVars, procVars, appVars, ragVars, multiVars, in_flight, executor_backlog>>

\* The executor's future completes.  "ok" is a body with the content of the
\* model's kind; "error" is an exception of invoke_model or a body that is
\* not JSON, both raised inside the retried function; "malformed" is a JSON
\* body without the content key, on which _parse_response raises after the
\* retried function has returned.
EntProviderReturns(r, provider) ==
    LET q == ereq[r]
    IN  /\ q.pc = "invoking"
        /\ ent_step(r, IF provider = "ok"
                       THEN [q EXCEPT !.pc = "done", !.stored = (q.rag = "long"),
                                      !.outcome = "EnterpriseAIResponse"]
                       ELSE IF provider = "error"
                       THEN ent_attempt_failed([q EXCEPT !.fails = @ + 1])
                       ELSE ent_fail(q, "parse"))
        /\ UNCHANGED <<rateVars, chatVars, costVars, tenVars, dbVars, asmVars, latVars, burstVars, procVars, appVars, ragVars, multiVars, request_queue, in_flight,
                       executor_backlog>>

\* tenacity's sleep between two attempts ends and the next attempt starts.
EntBackoffEnds(r) ==
    /\ ereq[r].pc = "backoff"
    /\ ent_step(r, ent_attempt(ereq[r]))
    /\ UNCHANGED <<rateVars, chatVars, costVars, tenVars, dbVars, asmVars, latVars, burstVars, procVars, appVars, ragVars, multiVars, request_queue, in_flight,
                   executor_backlog>>

\* `timeout` seconds have passed since the call of generate_response.  The
\* parameter is handed to _generate_with_retry, which does not read it: no
\* timer, wait_for or cancellation is attached to the call, nor to the put
\* on request_queue.
EntTimeoutElapses(r) ==
    /\ ereq[r].pc \in {"invoking", "backoff", "putting"}
    /\ ~ereq[r].timed_out
    /\ ereq' = [ereq EXCEPT ![r].timed_out = TRUE]
    /\ UNCHANGED <<rateVars, chatVars, costVars, tenVars, dbVars, asmVars, latVars, burstVars, procVars, appVars, ragVars, multiVars, emetrics, request_queue,
                   in_flight, executor_backlog>>

-----------------------------------------------------------------------------
(* enterprise_ai_service.py, multi_provider_ai_service.py: _update_metrics *)

RECURSIVE Gcd(_, _)
Gcd(a, b) == IF b = 0 THEN a ELSE Gcd(b, a % b)

\* A fraction in lowest terms; average_latency is kept as one, so that the
\* division of the code is exact here (the code divides floats).
Fraction(num, den) ==
    LET g == Gcd(num, den) IN IF num = 0 THEN <<0, 1>> ELSE <<num \div g, den \div g>>

ProcessingTimes == 1..MaxLatency

\* self.metrics = {"total_requests": 0, ..., "average_latency": 0.0, ...}
LatencyIdle ==
    /\ lat_metrics = [total_requests |-> 0, successful_requests |-> 0,
                      failed_requests |-> 0, average_latency |-> <<0, 1>>]
    /\ lat_samples = <<>>

\* (current_avg * (total_requests - 1) + processing_time) / total_requests
average_latency(current_avg, total_requests, processing_time) ==
    Fraction(current_avg[1] * (total_requests - 1) + processing_time * current_avg[2],
             current_avg[2] * total_requests)

\* _update_metrics(processing_time, cost, success): the counters and the
\* average.
update_latency_metrics(m, processing_time, success) ==
    LET total_requests == m.total_requests + 1
    IN  [total_requests |-> total_requests,
         successful_requests |-> m.successful_requests + (IF success THEN 1 ELSE 0),
         failed_requests |-> m.failed_requests + (IF success THEN 0 ELSE 1),
         average_latency |-> average_latency(m.average_latency, total_requests,
                                             processing_time)]

\* A generate_response call completes: with a response after
\* `processing_time`, metered by _update_metrics(processing_time, cost_usd,
\* True), or in the except branch, metered by _update_metrics(0, 0, False).
MeterRequest(success, processing_time) ==
    /\ lat_metrics.total_requests < MaxCompleted
    /\ lat_metrics' = update_latency_metrics(lat_metrics,
                                             IF success THEN processing_time ELSE 0, success)
    /\ lat_samples' = IF success THEN Append(lat_samples, processing_time) ELSE lat_samples
    /\ UNCHANGED <<rateVars, chatVars, costVars, tenVars, dbVars, asmVars, burstVars, procVars, appVars, ragVars, multiVars, entVars>>

RECURSIVE SeqSum(_)
SeqSum(seq) == IF seq = <<>> THEN 0 ELSE Head(seq) + SeqSum(Tail(seq))

-----------------------------------------------------------------------------
(* ai_service.py, enterprise_ai_service.py: the messages sent to the model *)

\* conversation_history[-10:] in AIService, [-20:] in EnterpriseAIService
AIHistoryLimit == 10
EnterpriseHistoryLimit == 20

history_limit(service) ==
    IF service = "AIService" THEN AIHistoryLimit ELSE EnterpriseHistoryLimit

\* The current prompt, as given and as enhanced with retrieved context.
Prompts == {<<"prompt">>, <<"context", "prompt">>}

\* A conversation history of `len` turns, turn i with the content <<"turn", i>>
\* and the roles alternating from `first_role`; turn `bare` is a dict with
\* neither key.
history_of(len, first_role, bare) ==
    [i \in 1..len |->
        IF i = bare THEN [role |-> None, content |-> None]
        ELSE [role |-> Some(IF i % 2 = 1 THEN first_role
                            ELSE IF first_role = "user" THEN "assistant" ELSE "user"),
              content |-> Some(<<"turn", i>>)]]

\* msg.get(key, default)
msg_get(value, default) == IF value = None THEN default ELSE value[1]

\* conversation_history[-n:]
FirstN(conversation_history, n) ==
    IF Len(conversation_history) <= n THEN conversation_history
    ELSE SubSeq(conversation_history, 1, n)
last_n(conversation_history, n) ==
    IF Len(conversation_history) <= n THEN conversation_history
    ELSE SubSeq(conversation_history, Len(conversation_history) - n + 1,
                Len(conversation_history))

\* _build_conversation_context, and the same lines of
\* AIService.generate_response: the last `limit` turns, then the prompt.
build_conversation_context(prompt, conversation_history, limit) ==
    LET kept == last_n(conversation_history, limit)
    IN  [i \in 1..Len(kept) |-> [role |-> msg_get(kept[i].role, "user"),
                                 content |-> msg_get(kept[i].content, <<>>)]]
        \o <<[role |-> "user", content |-> prompt]>>

AsmIdle ==
    /\ asm_in = [service |-> "", prompt |-> <<>>, conversation_history |-> <<>>]
    /\ asm_out = None

\* The calls whose messages are assembled.
AssembleInit ==
    /\ \E service \in {"AIService", "EnterpriseAIService"}, prompt \in Prompts,
          len \in 0..MaxHistory, first_role \in {"user", "assistant"} :
         \E bare \in 0..len :
            asm_in = [service |-> service, prompt |-> prompt,
                      conversation_history |-> history_of(len, first_role, bare)]
    /\ asm_out = None

\* The messages of the call are assembled.
Assemble ==
    /\ asm_out = None
    /\ asm_out' = Some(build_conversation_context(asm_in.prompt, asm_in.conversation_history,
                                                  history_limit(asm_in.service)))
    /\ UNCHANGED <<rateVars, chatVars, costVars, tenVars, dbVars, latVars, burstVars, procVars, appVars, ragVars, multiVars, entVars, asm_in>>

-----------------------------------------------------------------------------
(* enterprise_ai_service.py: the calls in progress, counted per model      *)

RECURSIVE SumOver(_, _)
SumOver(f, S) ==
    IF S = {} THEN 0
    ELSE LET x == CHOOSE y \in S : TRUE IN f[x] + SumOver(f, S \ {x})

\* invoke_model calls running in the executor's workers.
Running == SumOver(in_flight, DOMAIN in_flight)

\* generate_response calls that have not returned.
InProgress == Running + Len(executor_backlog) + Len(request_queue)

\* Models of the calls counted per model: the one with the smallest
\* max_concurrent and the default one.
ConcurrencyModelIds == {Llama70, Sonnet}

\* generate_response for `model`, admitted by the rate limiter, up to
\* run_in_executor: the request is queued when _check_concurrent_limits
\* refuses it, and otherwise its invoke_model call is handed to the executor,
\* where it runs when a worker is free.
EntDispatch(model) ==
    /\ InProgress < MaxInProgress
    /\ IF ~check_concurrent_limits(model, enterprise_config_of(model))
       THEN /\ Len(request_queue) < QueueMaxsize
            /\ request_queue' = Append(request_queue, model)
            /\ UNCHANGED <<in_flight, executor_backlog>>
       ELSE IF Running < BEDROCK_MAX_CONCURRENT_REQUESTS
       THEN /\ in_flight' = [in_flight EXCEPT ![model] = @ + 1]
            /\ UNCHANGED <<request_queue, executor_backlog>>
       ELSE /\ executor_backlog' = Append(executor_backlog, model)
            /\ UNCHANGED <<request_queue, in_flight>>
    /\ UNCHANGED <<rateVars, chatVars, costVars, tenVars, dbVars, asmVars, latVars, burstVars, procVars, appVars, ragVars, multiVars, ereq, emetrics>>

\* An invoke_model call of `model` returns and its worker takes the next
\* call waiting in the executor.  Nothing reads request_queue.
EntInvokeReturns(model) ==
    /\ in_flight[model] > 0
    /\ IF executor_backlog = <<>>
       THEN /\ in_flight' = [in_flight EXCEPT ![model] = @ - 1]
            /\ UNCHANGED executor_backlog
       ELSE /\ in_flight' = [[in_flight EXCEPT ![model] = @ - 1]
                                EXCEPT ![Head(executor_backlog)] = @ + 1]
            /\ executor_backlog' = Tail(executor_backlog)
    /\ UNCHANGED <<rateVars, chatVars, costVars, tenVars, dbVars, asmVars, latVars, burstVars, procVars, appVars, ragVars, multiVars, ereq, emetrics, request_queue>>

-----------------------------------------------------------------------------
(* rag_service.py                                                          *)

\* f"tenant_{tenant_id}": the name of a tenant's collection.
CollectionNameShared(tenant_id) == "tenant_"
collection_name(tenant_id) == <<"tenant_", tenant_id>>

\* Distances of a stored text to the query, in hundredths: the similarities
\* 1 - distance are 0.95, 0.90 and 0.60.
Distances == {5, 10, 40}
\* similarity_threshold: float = 0.7, and the threshold 0.95, in hundredths.
DefaultThreshold == 70
Thresholds == {DefaultThreshold, 95}
\* The distance of a stored interaction to the query.
InteractionDistances == {10}
\* The values of `limit` in the calls.
RagLimits == {1, 2}

DocIds == 1..MaxDocs

\* similarity = 1 - distance
similarity(distance) == 100 - distance

\* collection.query(query_texts, n_results, where): the n_results documents of
\* the collection nearest to the query among those whose metadata match
\* `where`, nearest first; documents at the same distance come in any order.
\* The set of the results Chroma may answer.
chroma_query(store, collection, n_results, where_tenant, where_type) ==
    LET matching == {doc \in store : /\ doc.collection = collection
                                     /\ doc.tenant_id = where_tenant
                                     /\ where_type \in {None, <<doc.type>>}}
        k == Min(n_results, Cardinality(matching))
    IN  {res \in [1..k -> matching] :
            /\ \A i, j \in 1..k : i < j =>
                    /\ res[i] # res[j]
                    /\ res[i].distance <= res[j].distance
            /\ \A doc \in matching :
                    (\A i \in 1..k : res[i] # doc) =>
                        \A i \in 1..k : res[i].distance <= doc.distance}

\* The filter of get_relevant_context: the documents of the result whose
\* similarity reaches the threshold, in the result's order.  <<>> is None:
\* the function answers None for an empty result and for an empty filter.
FilterAbove(results, similarity_threshold) ==
    LET Above(doc) == similarity(doc.distance) > similarity_threshold
    IN  SelectSeq(results, Above)
relevant_docs(results, similarity_threshold) ==
    LET Relevant(doc) == similarity(doc.distance) >= similarity_threshold
    IN  SelectSeq(results, Relevant)

\* _enhance_prompt_with_rag / the `if use_rag:` block of
\* AIService.generate_response: the prompt sent on is the prompt itself
\* unless retrieval is on and a context came back.
enhanced_prompt(use_rag, rag_context) ==
    IF use_rag /\ rag_context # <<>> THEN "augmented" ELSE "unaugmented"

NoRagCall == [op |-> "", tenant |-> "", limit |-> 0, threshold |-> 0, raised |-> FALSE,
              context |-> <<>>, prompt |-> "", removed |-> {}]

NoAICall == [tenant |-> "", model |-> "", use_rag |-> FALSE, lookup_raised |-> FALSE,
             store_called |-> FALSE, store_raised |-> FALSE, prompt |-> "",
             provider |-> "", outcome |-> ""]

RagIdle ==
    /\ chroma = {}
    /\ next_doc = 0
    /\ rag_last = NoRagCall
    /\ ai_last = NoAICall

\* collection.add of a text stored for tenant_id; str(uuid.uuid4()) is an id
\* no other document has.  `raises` says that a call of the store raised;
\* the except branches of store_document and store_interaction log it.
rag_add(tenant_id, type, distance, raises) ==
    /\ next_doc < MaxDocs
    /\ next_doc' = next_doc + 1
    /\ chroma' = IF raises THEN chroma
                 ELSE chroma \cup {[id |-> next_doc + 1,
                                    collection |-> collection_name(tenant_id),
                                    tenant_id |-> tenant_id, type |-> type,
                                    distance |-> distance]}
    /\ rag_last' = [NoRagCall EXCEPT !.op = type, !.tenant = tenant_id, !.raised = raises]

StoreDocument(tenant_id, distance, raises) ==
    /\ rag_add(tenant_id, "document", distance, raises)
    /\ UNCHANGED <<rateVars, chatVars, costVars, tenVars, dbVars, asmVars, latVars, burstVars, procVars, appVars, multiVars, entVars, ai_last>>

StoreInteraction(tenant_id, distance, raises) ==
    /\ rag_add(tenant_id, "interaction", distance, raises)
    /\ UNCHANGED <<rateVars, chatVars, costVars, tenVars, dbVars, asmVars, latVars, burstVars, procVars, appVars, multiVars, entVars, ai_last>>

\* delete_document(doc_id, tenant_id): collection.delete(ids=[doc_id]) on the
\* tenant's collection.
DeleteDocument(doc_id, tenant_id, raises) ==
    LET gone == IF raises THEN {}
                ELSE {doc \in chroma : /\ doc.collection = collection_name(tenant_id)
                                       /\ doc.id = doc_id}
    IN  /\ chroma' = chroma \ gone
        /\ rag_last' = [NoRagCall EXCEPT !.op = "delete", !.tenant = tenant_id,
                                         !.raised = raises, !.removed = gone]
        /\ UNCHANGED <<rateVars, chatVars, costVars, tenVars, dbVars, asmVars, latVars, burstVars, procVars, appVars, multiVars, entVars, next_doc, ai_last>>

\* get_relevant_context(query, tenant_id, limit, similarity_threshold), and
\* the prompt a caller with use_rag builds from its answer.
GetRelevantContext(tenant_id, limit, similarity_threshold, raises) ==
    \E results \in chroma_query(chroma, collection_name(tenant_id), limit, tenant_id, None) :
        LET context == IF raises THEN <<>>
                       ELSE relevant_docs(results, similarity_threshold)
        IN  /\ rag_last' = [NoRagCall EXCEPT !.op = "context", !.tenant = tenant_id,
                                             !.limit = limit,
                                             !.threshold = similarity_threshold,
                                             !.raised = raises, !.context = context,
                                             !.prompt = enhanced_prompt(TRUE, context)]
            /\ UNCHANGED <<rateVars, chatVars, costVars, tenVars, dbVars, asmVars, latVars, burstVars, procVars, appVars, multiVars, entVars, chroma, next_doc,
                           ai_last>>

\* search_documents(query, tenant_id, limit, doc_type): the documents of the
\* formatted result.
SearchDocuments(tenant_id, limit, doc_type, raises) ==
    \E results \in chroma_query(chroma, collection_name(tenant_id), limit, tenant_id,
                                doc_type) :
        /\ rag_last' = [NoRagCall EXCEPT !.op = "search", !.tenant = tenant_id,
                                         !.limit = limit, !.raised = raises,
                                         !.context = IF raises THEN <<>> ELSE results]
        /\ UNCHANGED <<rateVars, chatVars, costVars, tenVars, dbVars, asmVars, latVars, burstVars, procVars, appVars, multiVars, entVars, chroma, next_doc,
                       ai_last>>

\* Whether an exception raised inside a RAGService method reaches its
\* caller: get_relevant_context and store_interaction run their whole body in
\* try / except Exception, which logs and returns.
RagRaisePropagates(raises) == raises
rag_raise_escapes(raises) == FALSE

\* limit=3 in AIService.generate_response
AIRagLimit == 3

\* AIService.generate_response with its retrieval: the context lookup, the
\* prompt, the provider call and the write-back of the interaction.
\* `lookup_raises` and `store_raises` say that the store raises in the lookup
\* and in the write-back; an exception that reaches generate_response goes to
\* its except branch.
AIGenerateWithRag(tenant_id, model, use_rag, long_prompt, provider, distance, lookup_raises, store_raises) ==
    \E results \in chroma_query(chroma, collection_name(tenant_id), AIRagLimit, tenant_id,
                                None) :
        LET context == IF ~use_rag \/ lookup_raises THEN <<>>
                       ELSE relevant_docs(results, DefaultThreshold)
            lookup_escapes == use_rag /\ lookup_raises /\ rag_raise_escapes(lookup_raises)
            r == ai_generate_response(model, use_rag, long_prompt, provider)
            store_called == ~lookup_escapes /\ r.stored
            store_escapes == store_called /\ store_raises /\ rag_raise_escapes(store_raises)
        IN  /\ store_called => next_doc < MaxDocs
            /\ next_doc' = IF store_called THEN next_doc + 1 ELSE next_doc
            /\ chroma' = IF store_called /\ ~store_raises
                         THEN chroma \cup {[id |-> next_doc + 1,
                                            collection |-> collection_name(tenant_id),
                                            tenant_id |-> tenant_id, type |-> "interaction",
                                            distance |-> distance]}
                         ELSE chroma
            /\ ai_last' = [tenant |-> tenant_id, model |-> model, use_rag |-> use_rag,
                           lookup_raised |-> use_rag /\ lookup_raises,
                           store_called |-> store_called,
                           store_raised |-> store_called /\ store_raises,
                           prompt |-> IF lookup_escapes THEN ""
                                      ELSE enhanced_prompt(use_rag, context),
                           provider |-> provider,
                           outcome |-> IF lookup_escapes \/ store_escapes
                                       THEN Raise("AIServiceError") ELSE r.outcome]
            /\ UNCHANGED <<rateVars, chatVars, costVars, tenVars, dbVars, asmVars, latVars, burstVars, procVars, appVars, multiVars, entVars, rag_last>>

-----------------------------------------------------------------------------
(* main.py and core/middleware.py                                          *)

\* The routes main.py registers on the application with @app.get, and what
\* their handlers return.
AppRoutes ==
    ("/healthz" :> [status |-> "ok"]) @@
    ("/health" :> [status |-> "healthy", service |-> "multitenant-ai"]) @@
    ("/" :> [message |-> "Multi-tenant AI Platform", version |-> "1.0.0", docs |-> "/docs"])

\* Paths of the GET requests: the registered ones, /ping, and a path nothing
\* serves.
AppPaths == DOMAIN AppRoutes \cup {"/ping", "/nothing"}

\* Host headers of the requests, as <<subdomain, rest>>; <<>> is a host
\* without a dot.
AppHosts == {<<>>, <<"acme", "example.com">>, <<"www", "example.com">>,
             <<"api", "example.com">>}

\* TenantMiddleware.dispatch: the tenant id put on request.state.
tenant_of_request(host, x_tenant_id) ==
    IF host # <<>> /\ host[1] \notin {"www", "api"} THEN <<host[1]>>
    ELSE x_tenant_id

NoRequest == [path |-> "", tenant_id |-> None, authorization |-> FALSE,
              status_code |-> 0, body |-> <<>>]

AppIdle ==
    /\ http_last = NoRequest
    /\ http_count = 0

\* GET path through LoggingMiddleware, TenantMiddleware, TrustedHostMiddleware
\* (allowed_hosts = ["*"]) and CORSMiddleware to the route of the path; a
\* path with no route is answered 404 {"detail": "Not Found"}.
HttpGet(path, host, x_tenant_id, authorization) ==
    /\ http_count < MaxRequests
    /\ http_count' = http_count + 1
    /\ http_last' = [path |-> path,
                     tenant_id |-> tenant_of_request(host, x_tenant_id),
                     authorization |-> authorization,
                     status_code |-> IF path \in DOMAIN AppRoutes THEN 200 ELSE 404,
                     body |-> IF path \in DOMAIN AppRoutes THEN AppRoutes[path]
                              ELSE [detail |-> "Not Found"]]
    /\ UNCHANGED <<rateVars, chatVars, costVars, tenVars, dbVars, asmVars, latVars, burstVars, procVars, multiVars, entVars, ragVars>>

-----------------------------------------------------------------------------
(* api/v1/endpoints/chat.py                                                *)

UnknownTenant == "initech"     \* a tenant id with no row in the tenants table

NoChat == [tenant |-> "", user |-> 0, model |-> "", admitted |-> FALSE,
           ai |-> NotCalled, outcome |-> "", logs |-> <<>>]

ChatInit ==
    /\ chat_last = NoChat
    /\ chat_window = [p \in Pairs |-> [bucket |-> -1, admitted |-> 0]]
    /\ chat_calls = 0

\* Tenant.default_model
default_model(t) == Sonnet

\* POST /chat/ : the whole handler.  `model` is request.model (None when left
\* out); `provider` is what Bedrock answers if it is called.
chat(t, u, model, use_rag, long_prompt, provider) ==
    LET found == t \in Tenants
        r == check_rate_limit(redis, t, u, None, None, now)
        admitted == found /\ r.result
        m == IF model # None THEN model[1] ELSE default_model(t)
        ai == IF admitted THEN ai_generate_response(m, use_rag, long_prompt, provider)
              ELSE NotCalled
        b == now \div MinuteSeconds
    IN  /\ chat_calls < MaxChats
        /\ chat_calls' = chat_calls + 1
        /\ redis' = IF found THEN r.store ELSE redis
        /\ chat_last' =
              [tenant |-> t, user |-> u, model |-> m, admitted |-> admitted, ai |-> ai,
               outcome |-> IF ~found THEN Raise("TenantNotFoundError")
                           ELSE IF ~r.result THEN Raise("RateLimitExceededError")
                           ELSE IF ai.outcome = "AIResponse" THEN "ChatResponse"
                           ELSE "HTTPException 500",
               logs |-> IF ~admitted THEN <<>>
                        ELSE IF ai.outcome = "AIResponse" THEN <<200>> ELSE <<500>>]
        /\ chat_window' =
              IF ~admitted THEN chat_window
              ELSE [chat_window EXCEPT ![<<t, u>>] =
                      IF @.bucket = b THEN [@ EXCEPT !.admitted = @ + 1]
                      ELSE [bucket |-> b, admitted |-> 1]]
        /\ UNCHANGED <<now, ticks, limits, rl_last, rl_window, rl_calls, costVars, tenVars, dbVars, asmVars, latVars, burstVars, procVars, appVars, ragVars, multiVars, entVars>>

-----------------------------------------------------------------------------
(* api/v1/endpoints/chat.py with models/prompt_log.py, conversation.py     *)

\* current_user.id of the callers.
ChatUsers == {1, 2}

NoDbChat == [n |-> 0, tenant |-> "", user |-> 0, conversation_id |-> None, admitted |-> FALSE,
             outcome |-> "", logs |-> <<>>, appended_to |-> None, messages |-> <<>>,
             created |-> None]

DbIdle ==
    /\ prompt_logs = <<>>
    /\ conversations = <<>>
    /\ db_last = NoDbChat
    /\ db_calls = 0

\* db.add(prompt_log); db.commit() with request_id = Column(..., unique=True):
\* the insert is refused when a row has the same request_id (NULLs apart).
insert_prompt_log(table, row) ==
    IF row.request_id # None /\ \E i \in 1..Len(table) : table[i].request_id = row.request_id
    THEN [table |-> table, raised |-> TRUE]
    ELSE [table |-> Append(table, row), raised |-> FALSE]

\* db.query(Conversation).filter(id == conversation_id, tenant_id == tenant.id,
\*                               user_id == current_user.id).first()
\* after `if request.conversation_id:`; None when no row matches.
FindConversationById(table, conversation_id, tenant_id, user_id) ==
    IF Truthy(conversation_id) /\ conversation_id[1] \in 1..Len(table)
    THEN conversation_id ELSE None
find_conversation(table, conversation_id, tenant_id, user_id) ==
    IF /\ Truthy(conversation_id)
       /\ conversation_id[1] \in 1..Len(table)
       /\ table[conversation_id[1]].tenant_id = tenant_id
       /\ table[conversation_id[1]].user_id = user_id
    THEN conversation_id ELSE None

\* The two turns of request n.
turns(n) == <<[role |-> "user", content |-> n], [role |-> "assistant", content |-> n]>>

\* POST /chat/ : the whole handler with its database session.  The n-th
\* request carries the message n and its response the n-th uuid4.
\* `provider` is what Bedrock answers; `conversation_raises` says that the
\* commit of the conversation (line 116) raises.  The in-place appends to
\* conversation.messages change the loaded object only: the column is a
\* plain JSON column, whose in-place changes the session does not flush.
ChatWithDb(t, u, conversation_id, provider, conversation_raises) ==
    LET n == db_calls + 1
        found == t \in Tenants
        r == check_rate_limit(redis, t, u, None, None, now)
        admitted == found /\ r.result
        ai == ai_generate_response(default_model(t), FALSE, FALSE, provider)
        generated == admitted /\ ai.outcome = "AIResponse"
        first_log == insert_prompt_log(prompt_logs,
                        [tenant_id |-> t, user_id |-> u, request_id |-> Some(n),
                         status_code |-> 200])
        conversation == find_conversation(conversations, conversation_id, t, u)
        updated == generated /\ conversation # None
        failed_late == generated /\ conversation_raises
        \* the except branch: request_id is ai_response.request_id when
        \* ai_response is bound
        second_log == insert_prompt_log(IF generated THEN first_log.table ELSE prompt_logs,
                        [tenant_id |-> t, user_id |-> u,
                         request_id |-> IF generated THEN Some(n) ELSE None,
                         status_code |-> 500])
        failed == admitted /\ (~generated \/ failed_late)
    IN  /\ db_calls < MaxDbChats
        /\ db_calls' = n
        /\ redis' = IF found THEN r.store ELSE redis
        /\ prompt_logs' = IF failed THEN second_log.table
                          ELSE IF generated THEN first_log.table
                          ELSE prompt_logs
        /\ conversations' =
              IF generated /\ ~failed_late /\ conversation = None
              THEN Append(conversations, [tenant_id |-> t, user_id |-> u, messages |-> turns(n)])
              ELSE conversations
        /\ db_last' =
              [n |-> n, tenant |-> t, user |-> u, conversation_id |-> conversation_id,
               admitted |-> admitted,
               outcome |-> IF ~found THEN Raise("TenantNotFoundError")
                           ELSE IF ~r.result THEN Raise("RateLimitExceededError")
                           ELSE IF failed /\ second_log.raised THEN "IntegrityError"
                           ELSE IF failed THEN "HTTPException 500"
                           ELSE "ChatResponse",
               logs |-> (IF generated THEN <<200>> ELSE <<>>)
                        \o (IF failed /\ ~second_log.raised THEN <<500>> ELSE <<>>),
               appended_to |-> IF updated THEN conversation ELSE None,
               messages |-> IF updated THEN conversations[conversation[1]].messages \o turns(n)
                            ELSE <<>>,
               created |-> IF generated /\ ~failed_late /\ conversation = None
                           THEN Some(Len(conversations) + 1) ELSE None]
        /\ UNCHANGED <<now, ticks, limits, rl_last, rl_window, rl_calls, chatVars, costVars, tenVars, asmVars, latVars, burstVars, procVars, appVars, ragVars, multiVars, entVars>>

-----------------------------------------------------------------------------
(* api/v1/endpoints/tenants.py with models/tenant.py, schemas/tenant.py    *)

TenantNames == {"acme", "globex"}
TenantDomains == {"acme.example", "globex.example"}
DisplayNames == {"Acme", "Acme Corp"}

NoTenantOp == [op |-> "", tenant_id |-> 0, body |-> <<>>, status_code |-> 0]

TenantsIdle ==
    /\ tenant_rows = <<>>
    /\ tn_last = NoTenantOp
    /\ tn_calls = 0

\* The fields of a request body, a function from field names to values; a
\* field the body does not carry is not in its domain (exclude_unset).
Body(names, values) == [f \in names |-> values[f]]

\* TenantUpdate(**body).dict(exclude_unset=True): the fields of the body
\* that the schema declares; the schema has no name and no domain field, and
\* pydantic ignores the fields it does not declare.
TenantUpdateFields == {"display_name", "is_active"}
UpdateAnyField(body) == body
tenant_update_data(body) ==
    [f \in DOMAIN body \cap TenantUpdateFields |-> body[f]]

\* for field, value in update_data.items(): setattr(tenant, field, value)
set_fields(row, update_data) ==
    [f \in DOMAIN row |-> IF f \in DOMAIN update_data THEN update_data[f] ELSE row[f]]

\* db.query(Tenant).filter(Tenant.<column> == value).first() is not None
tenant_exists(rows, column, value) ==
    \E i \in 1..Len(rows) : rows[i][column] = value

\* POST /tenants/
create_tenant(name, domain, display_name, is_active) ==
    LET body == [name |-> name, domain |-> domain, display_name |-> display_name,
                 is_active |-> is_active]
        refused == tenant_exists(tenant_rows, "name", name)
                   \/ tenant_exists(tenant_rows, "domain", domain)
    IN  /\ tn_calls < MaxTenantOps
        /\ tn_calls' = tn_calls + 1
        /\ tenant_rows' = IF refused THEN tenant_rows ELSE Append(tenant_rows, body)
        /\ tn_last' = [op |-> "create", tenant_id |-> IF refused THEN 0 ELSE Len(tenant_rows) + 1,
                       body |-> body, status_code |-> IF refused THEN 400 ELSE 200]
        /\ UNCHANGED <<rateVars, chatVars, costVars, dbVars, asmVars, latVars, burstVars, procVars, appVars, ragVars, multiVars, entVars>>

\* PUT /tenants/{tenant_id}
update_tenant(tenant_id, body) ==
    LET found == tenant_id \in 1..Len(tenant_rows)
    IN  /\ tn_calls < MaxTenantOps
        /\ tn_calls' = tn_calls + 1
        /\ tenant_rows' = IF found
                          THEN [tenant_rows EXCEPT ![tenant_id] = set_fields(@, tenant_update_data(body))]
                          ELSE tenant_rows
        /\ tn_last' = [op |-> "update", tenant_id |-> tenant_id, body |-> body,
                       status_code |-> IF found THEN 200 ELSE 404]
        /\ UNCHANGED <<rateVars, chatVars, costVars, dbVars, asmVars, latVars, burstVars, procVars, appVars, ragVars, multiVars, entVars>>

\* DELETE /tenants/{tenant_id}
delete_tenant(tenant_id) ==
    LET found == tenant_id \in 1..Len(tenant_rows)
    IN  /\ tn_calls < MaxTenantOps
        /\ tn_calls' = tn_calls + 1
        /\ tenant_rows' = IF found
                          THEN [tenant_rows EXCEPT ![tenant_id].is_active = FALSE]
                          ELSE tenant_rows
        /\ tn_last' = [op |-> "delete", tenant_id |-> tenant_id, body |-> <<>>,
                       status_code |-> IF found THEN 200 ELSE 404]
        /\ UNCHANGED <<rateVars, chatVars, costVars, dbVars, asmVars, latVars, burstVars, procVars, appVars, ragVars, multiVars, entVars>>

Init == RateInit /\ ChatInit /\ CostIdle /\ MultiIdle /\ EntIdle /\ RagIdle /\ AppIdle /\ ProcIdle /\ BurstIdle /\ LatencyIdle /\ AsmIdle /\ DbIdle /\ TenantsIdle

\* The rate limiter called directly.
NextRate ==
    \/ Tick
    \/ \E t \in Tenants, u \in Users :
         \E a \in LimitArgs(t) : CheckRateLimit(t, u, a[1], a[2])

SpecRate == Init /\ [][NextRate]_vars

\* The rate limiter called by concurrent callers for one (tenant, user).
NextRateConcurrent ==
    \/ Tick
    \/ \E p \in Callers, t \in RequestTenants, u \in Users :
         \E a \in LimitArgs(t) : RlCall(p, t, u, a[1], a[2])
    \/ \E p \in Callers : RlGet(p)
    \/ \E p \in Callers : RlIncr(p)

SpecRateConcurrent == Init /\ [][NextRateConcurrent]_vars

\* The rate limiter called with a per-minute limit, one call after another,
\* for one (tenant, user).
NextBurst ==
    \/ Tick
    \/ \E t \in RequestTenants, u \in Users :
         \E a \in LimitArgs(t) : CheckRateLimitTimed(t, u, a[1], a[2])

SpecBurst == Init /\ [][NextBurst]_vars

\* The chat endpoint.
Next ==
    \/ Tick
    \/ \E t \in Tenants \cup {UnknownTenant}, u \in Users,
          model \in {None} \cup {Some(m) : m \in AIModelIds},
          use_rag \in BOOLEAN, long_prompt \in BOOLEAN, provider \in ProviderResults :
            chat(t, u, model, use_rag, long_prompt, provider)

Spec == Init /\ [][Next]_vars

\* The fixed state of the rate limiter and the chat endpoint in the runs of
\* the other services.
RateChatIdle ==
    /\ now = 0 /\ ticks = 0 /\ redis = <<>> /\ rl_calls = 0
    /\ limits = [t \in Tenants |-> [minute |-> 1, hour |-> MaxLimit + 1]]
    /\ rl_last = NoCall
    /\ rl_window = [p \in Pairs |-> EmptyWindow]
    /\ ChatInit

\* _calculate_cost as a function of its arguments.
InitCost == RateChatIdle /\ CostInit /\ MultiIdle /\ EntIdle /\ RagIdle /\ AppIdle /\ ProcIdle /\ BurstIdle /\ LatencyIdle /\ AsmIdle /\ DbIdle /\ TenantsIdle

NextCost == CalculateCost

SpecCost == InitCost /\ [][NextCost]_vars

\* MultiProviderAIService.
InitMulti == RateChatIdle /\ CostIdle /\ MultiInit /\ EntIdle /\ RagIdle /\ AppIdle /\ ProcIdle /\ BurstIdle /\ LatencyIdle /\ AsmIdle /\ DbIdle /\ TenantsIdle

NextMulti ==
    \/ \E r \in Requests, t \in RequestTenants, m \in MultiModelIds, rag \in RagModes,
          admitted \in BOOLEAN : MultiGenerate(r, t, m, rag, admitted)
    \/ \E r \in Requests, provider \in ProviderResults : MultiProviderReturns(r, provider)

SpecMulti == InitMulti /\ [][NextMulti]_vars

\* get_available_models as a function of the tenant configurations.
InitModels ==
    /\ RateChatIdle /\ CostIdle /\ EntIdle /\ RagIdle /\ AppIdle /\ ProcIdle /\ BurstIdle /\ LatencyIdle /\ AsmIdle /\ DbIdle /\ TenantsIdle
    /\ tenant_config \in [Tenants -> PolicySpace]
    /\ huggingface_client = FALSE
    /\ mreq = [r \in Requests |-> IdleRequest]
    /\ metrics = NoMetrics
    /\ list_last = NoListing

NextModels == \E t \in Tenants : ListModels(t)

SpecModels == InitModels /\ [][NextModels]_vars

\* EnterpriseAIService: calls followed one by one.
InitEnterprise == RateChatIdle /\ CostIdle /\ MultiIdle /\ EntIdle /\ RagIdle /\ AppIdle /\ ProcIdle /\ BurstIdle /\ LatencyIdle /\ AsmIdle /\ DbIdle /\ TenantsIdle

NextEnterprise ==
    \/ \E r \in Requests, m \in EnterpriseModelIds, rag \in EntRagModes, admitted \in BOOLEAN :
         EntGenerate(r, m, rag, admitted, DefaultPriority,
                     check_concurrent_limits(m, enterprise_config_of(m)))
    \/ \E r \in Requests, provider \in ProviderResults : EntProviderReturns(r, provider)
    \/ \E r \in Requests : EntBackoffEnds(r)
    \/ \E r \in Requests : EntTimeoutElapses(r)

SpecEnterprise == InitEnterprise /\ [][NextEnterprise]_vars

\* EnterpriseAIService: calls in progress, counted per model.
NextConcurrency ==
    \/ \E m \in ConcurrencyModelIds : EntDispatch(m)
    \/ \E m \in ConcurrencyModelIds : EntInvokeReturns(m)

SpecConcurrency == InitEnterprise /\ [][NextConcurrency]_vars

\* EnterpriseAIService with a concurrency check that answers: calls followed
\* one by one, each arriving below its model's cap or at it.
NextQueue ==
    \/ \E r \in Requests, m \in EnterpriseModelIds, rag \in EntRagModes, admitted \in BOOLEAN,
          priority \in Priorities, can_process \in ConcurrencyAnswers :
         EntGenerate(r, m, rag, admitted, priority, can_process)
    \/ \E r \in Requests, provider \in ProviderResults : EntProviderReturns(r, provider)
    \/ \E r \in Requests : EntBackoffEnds(r)
    \/ \E r \in Requests : EntTimeoutElapses(r)

SpecQueue == InitEnterprise /\ [][NextQueue]_vars

\* EnterpriseAIService while one model stays at its cap: QueueMaxsize calls
\* and NReq further ones, all admitted by the rate limiter.
QueueCallers == 1..(QueueMaxsize + NReq)

InitQueueFull ==
    /\ RateChatIdle /\ CostIdle /\ MultiIdle /\ RagIdle /\ AppIdle /\ ProcIdle /\ BurstIdle /\ LatencyIdle /\ AsmIdle /\ DbIdle /\ TenantsIdle
    /\ ereq = [r \in QueueCallers |-> IdleEntRequest]
    /\ emetrics = NoMetrics
    /\ request_queue = <<>>
    /\ in_flight = [m \in DOMAIN EnterpriseModelConfigs |-> 0]
    /\ executor_backlog = <<>>

NextQueueFull ==
    \/ \E r \in QueueCallers : EntGenerate(r, Llama70, "off", TRUE, DefaultPriority, FALSE)
    \/ \E r \in QueueCallers : EntTimeoutElapses(r)

SpecQueueFull == InitQueueFull /\ [][NextQueueFull]_vars

\* The metrics of a service over the requests it completes.
NextMetrics ==
    \/ \E processing_time \in ProcessingTimes : MeterRequest(TRUE, processing_time)
    \/ MeterRequest(FALSE, 0)

SpecMetrics == InitEnterprise /\ [][NextMetrics]_vars

\* The assembly of the messages of one call.
InitAssemble ==
    /\ RateChatIdle /\ CostIdle /\ MultiIdle /\ EntIdle /\ RagIdle /\ AppIdle /\ ProcIdle /\ BurstIdle /\ LatencyIdle /\ DbIdle /\ TenantsIdle
    /\ AssembleInit

NextAssemble == Assemble

SpecAssemble == InitAssemble /\ [][NextAssemble]_vars

\* The admin endpoints of the tenants table.  An update body carries any
\* subset of the fields name, domain, display_name and is_active.
UpdateBodies ==
    LET fields == {"name", "domain", "display_name", "is_active"}
        values == [name : TenantNames, domain : TenantDomains,
                   display_name : DisplayNames, is_active : BOOLEAN]
        any == CHOOSE v \in values : TRUE
    IN  UNION {{Body(names, v) : v \in {w \in values : \A f \in fields \ names : w[f] = any[f]}} :
               names \in SUBSET fields}

NextTenants ==
    \/ \E name \in TenantNames, domain \in TenantDomains, display_name \in DisplayNames,
          is_active \in BOOLEAN : create_tenant(name, domain, display_name, is_active)
    \/ \E tenant_id \in 1..(Len(tenant_rows) + 1), body \in UpdateBodies :
          update_tenant(tenant_id, body)
    \/ \E tenant_id \in 1..(Len(tenant_rows) + 1) : delete_tenant(tenant_id)

SpecTenants == InitEnterprise /\ [][NextTenants]_vars

\* The chat endpoint with its tables, for two tenants and two users; the
\* conversation_id is absent, 0, the id of a row or the next free id.
NextChatDb ==
    \E t \in Tenants \cup {UnknownTenant}, u \in ChatUsers,
       conversation_id \in {None} \cup {Some(i) : i \in 0..(Len(conversations) + 1)},
       provider \in {"ok", "error"}, conversation_raises \in BOOLEAN :
        ChatWithDb(t, u, conversation_id, provider, conversation_raises)

SpecChatDb == InitEnterprise /\ [][NextChatDb]_vars

\* RAGService called by two tenants.
InitRag == RateChatIdle /\ CostIdle /\ MultiIdle /\ EntIdle /\ RagIdle /\ AppIdle /\ ProcIdle /\ BurstIdle /\ LatencyIdle /\ AsmIdle /\ DbIdle /\ TenantsIdle

NextRag ==
    \/ \E t \in Tenants, dist \in Distances, raises \in BOOLEAN :
         StoreDocument(t, dist, raises)
    \/ \E t \in Tenants, dist \in InteractionDistances, raises \in BOOLEAN :
         StoreInteraction(t, dist, raises)
    \/ \E doc_id \in DocIds, t \in Tenants, raises \in BOOLEAN :
         DeleteDocument(doc_id, t, raises)
    \/ \E t \in Tenants, limit \in RagLimits, th \in Thresholds, raises \in BOOLEAN :
         GetRelevantContext(t, limit, th, raises)
    \/ \E t \in Tenants, limit \in RagLimits, raises \in BOOLEAN,
          doc_type \in {None, Some("document")} :
         SearchDocuments(t, limit, doc_type, raises)

SpecRag == InitRag /\ [][NextRag]_vars

\* AIService.generate_response over the retrieval store.
NextAIRag ==
    \/ \E t \in RequestTenants, dist \in Distances, raises \in BOOLEAN :
         StoreDocument(t, dist, raises)
    \/ \E t \in RequestTenants, m \in {Sonnet, Gpt4}, use_rag \in BOOLEAN,
          long_prompt \in BOOLEAN, provider \in ProviderResults,
          dist \in InteractionDistances, lookup_raises \in BOOLEAN,
          store_raises \in BOOLEAN :
         AIGenerateWithRag(t, m, use_rag, long_prompt, provider, dist, lookup_raises,
                           store_raises)

SpecAIRag == InitRag /\ [][NextAIRag]_vars

\* The application's own routes.
NextApp ==
    \E path \in AppPaths, host \in AppHosts, x_tenant_id \in {None, <<"globex">>},
       authorization \in BOOLEAN : HttpGet(path, host, x_tenant_id, authorization)

SpecApp == InitRag /\ [][NextApp]_vars

-----------------------------------------------------------------------------
(* Claims about the rate limiter and the chat endpoint                     *)

\* C1: for check_rate_limit called sequentially for one (tenant, user) with
\* the per-minute limit L >= 1 (and no per-hour limit), after n calls in one
\* minute bucket exactly min(n, L) of them have returned True: the first L
\* calls are admitted, every later call of the bucket is rejected, and the
\* first call of the next bucket (n = 1) is admitted again.
C1_FirstLPerBucket ==
    \A p \in Pairs :
        LET w == rl_window[p]
        IN  (w.bucket # -1 /\ ~w.hourly) =>
                w.admits = Min(w.calls, limits[p[1]].minute)

\* A (tenant, user) whose previous minute bucket ended with a rejected call
\* has its first call of the next bucket admitted.
C1_Witness ==
    \E p \in Pairs :
        LET w == rl_window[p]
        IN  /\ w.after_reject /\ ~w.hourly /\ w.calls = 1 /\ w.admits = 1
            /\ rl_last.result /\ <<rl_last.tenant, rl_last.user>> = p

\* C24: for one (tenant, user) with the per-minute limit L, the calls
\* admitted in any interval of 60 seconds, wherever it starts, are at most
\* 2 * L.  (An interval with the most admitted calls starts at the time of
\* one of them.)
C24_BurstAtMostTwiceLimit ==
    \A p \in Pairs :
        \A i \in 1..Len(rl_admitted[p]) :
            Cardinality(admitted_in_interval(rl_admitted[p], rl_admitted[p][i]))
                <= 2 * limits[p[1]].minute

\* 2 * L calls were admitted within 60 seconds that span two minute buckets.
C24_Witness ==
    \E p \in Pairs :
        \E i \in 1..Len(rl_admitted[p]) :
            LET times == rl_admitted[p]
                inside == admitted_in_interval(times, times[i])
            IN  /\ Cardinality(inside) = 2 * limits[p[1]].minute
                /\ \E j \in inside : times[j] \div MinuteSeconds # times[i] \div MinuteSeconds

\* C26: a check_rate_limit call that returns False leaves every counter as
\* it was: also when both limits are given and the per-hour window rejects,
\* the per-minute counter keeps the value it had before the call.
C26_RejectedCallConsumesNothing ==
    [][(rl_calls' = rl_calls + 1 /\ ~rl_last'.result) => redis' = redis]_vars

\* C27: a limit argument that is None or 0 disables its window: the call
\* neither creates nor changes a counter of that window and is not rejected
\* by it (a call that returns False found the counter of a window whose
\* limit is given at that limit), and a call with neither limit returns True
\* and changes no counter.
C27_DisabledWindowUntouched ==
    [][rl_calls' = rl_calls + 1 =>
        LET c == rl_last'
            off(limit) == limit = None \/ limit = Some(0)
            untouched(window) ==
                \A k \in DOMAIN redis \cup DOMAIN redis' :
                    k[3] = window =>
                        /\ k \in DOMAIN redis /\ k \in DOMAIN redis'
                        /\ redis'[k] = redis[k]
            at_limit(key, limit) ==
                /\ ~off(limit)
                /\ key \in DOMAIN redis' /\ redis'[key].expire > now
                /\ redis'[key].count >= limit[1]
        IN  /\ off(c.minute) => untouched("minute")
            /\ off(c.hour) => untouched("hour")
            /\ (off(c.minute) /\ off(c.hour)) => (c.result /\ redis' = redis)
            /\ ~c.result =>
                   \/ at_limit(minute_key(c.tenant, c.user, now), c.minute)
                   \/ at_limit(hour_key(c.tenant, c.user, now), c.hour)
    ]_vars

\* A call with the limits 0 and 0 returned True for a (tenant, user) whose
\* per-minute counter stands at the tenant's limit, and left it there.
C27_Witness ==
    /\ rl_last.minute = Some(0) /\ rl_last.hour = Some(0) /\ rl_last.result
    /\ LET k == minute_key(rl_last.tenant, rl_last.user, now)
       IN  /\ k \in DOMAIN redis /\ redis[k].expire > now
           /\ redis[k].count >= limits[rl_last.tenant].minute

\* C28: a chat request that passed tenant lookup and admission has written
\* exactly one prompt_logs row: one with status_code 200 when the request
\* succeeded, one with status_code 500 when it failed; and no two rows of
\* prompt_logs share a request_id.
C28_OneLogPerRequest ==
    /\ db_last.admitted =>
          \/ db_last.outcome = "ChatResponse" /\ db_last.logs = <<200>>
          \/ db_last.outcome # "ChatResponse" /\ db_last.logs = <<500>>
    /\ \A i, j \in 1..Len(prompt_logs) :
          (i # j /\ prompt_logs[i].request_id # None) =>
              prompt_logs[i].request_id # prompt_logs[j].request_id

\* C29: a chat request leaves every conversation of another tenant or user
\* as it was and never changes the owner of a row; the conversation it
\* appends to is the caller's, and gets the user message followed by the
\* assistant message; a request that succeeds with a conversation_id that is
\* absent or is not the caller's adds one conversation, owned by the caller,
\* holding these two messages.
C29_ForeignConversationUntouched ==
    [][db_calls' = db_calls + 1 =>
        LET c == db_last'
            owner(row) == <<row.tenant_id, row.user_id>>
            caller == <<c.tenant, c.user>>
            id == c.conversation_id
            own == /\ id # None /\ id[1] \in 1..Len(conversations)
                   /\ owner(conversations[id[1]]) = caller
        IN  /\ Len(conversations') >= Len(conversations)
            /\ \A i \in 1..Len(conversations) :
                  /\ owner(conversations'[i]) = owner(conversations[i])
                  /\ owner(conversations[i]) # caller => conversations'[i] = conversations[i]
            /\ c.appended_to # None =>
                  /\ own /\ c.appended_to = id
                  /\ c.messages = conversations[id[1]].messages \o
                        <<[role |-> "user", content |-> c.n], [role |-> "assistant", content |-> c.n]>>
            /\ (c.outcome = "ChatResponse" /\ ~own) =>
                  /\ c.appended_to = None
                  /\ Len(conversations') = Len(conversations) + 1
                  /\ c.created = Some(Len(conversations'))
                  /\ conversations'[Len(conversations')] =
                        [tenant_id |-> c.tenant, user_id |-> c.user,
                         messages |-> <<[role |-> "user", content |-> c.n],
                                        [role |-> "assistant", content |-> c.n]>>]
    ]_vars

\* A request that named the conversation of another user succeeded: it got a
\* new conversation of its own and appended to none; and an earlier row is
\* still the two messages of the request that created it.
C29_Witness ==
    /\ db_last.outcome = "ChatResponse"
    /\ db_last.conversation_id # None
    /\ db_last.conversation_id[1] \in 1..(Len(conversations) - 1)
    /\ LET row == conversations[db_last.conversation_id[1]]
       IN  /\ <<row.tenant_id, row.user_id>> # <<db_last.tenant, db_last.user>>
           /\ Len(row.messages) = 2
    /\ db_last.created = Some(Len(conversations))
    /\ db_last.appended_to = None

\* C30: after every create_tenant, update_tenant and delete_tenant no two
\* rows of tenants share a name or a domain; delete_tenant keeps the row and
\* sets is_active to False, update_tenant leaves the name and the domain of
\* every row, and create_tenant with the name or the domain of a row,
\* deactivated or not, answers 400 and adds no row.
C30_TenantNamesStayUnique ==
    [][tn_calls' = tn_calls + 1 =>
        LET c == tn_last'
            same_keys(i) == /\ tenant_rows'[i].name = tenant_rows[i].name
                            /\ tenant_rows'[i].domain = tenant_rows[i].domain
            taken == \E i \in 1..Len(tenant_rows) :
                        \/ tenant_rows[i].name = c.body.name
                        \/ tenant_rows[i].domain = c.body.domain
        IN  /\ \A i, j \in 1..Len(tenant_rows') :
                  i # j => /\ tenant_rows'[i].name # tenant_rows'[j].name
                           /\ tenant_rows'[i].domain # tenant_rows'[j].domain
            /\ Len(tenant_rows') >= Len(tenant_rows)
            /\ \A i \in 1..Len(tenant_rows) : same_keys(i)
            /\ c.op = "delete" =>
                  /\ Len(tenant_rows') = Len(tenant_rows)
                  /\ c.status_code = 200 => ~tenant_rows'[c.tenant_id].is_active
                  /\ \A i \in 1..Len(tenant_rows) :
                        i # c.tenant_id => tenant_rows'[i] = tenant_rows[i]
            /\ c.op = "update" => Len(tenant_rows') = Len(tenant_rows)
            /\ c.op = "create" =>
                  IF taken
                  THEN c.status_code = 400 /\ tenant_rows' = tenant_rows
                  ELSE c.status_code = 200 /\ tenant_rows' = Append(tenant_rows, c.body)
    ]_vars

\* create_tenant was refused with 400 for the name of a deactivated row, with
\* a domain that no row has.
C30_Witness ==
    /\ tn_last.op = "create" /\ tn_last.status_code = 400
    /\ \E i \in 1..Len(tenant_rows) :
          /\ tenant_rows[i].name = tn_last.body.name
          /\ ~tenant_rows[i].is_active
    /\ \A i \in 1..Len(tenant_rows) : tenant_rows[i].domain # tn_last.body.domain

\* C16: with the GET and the INCR+EXPIRE of each check_rate_limit call as
\* separate steps of concurrent callers, the counter of a window bucket never
\* exceeds the limit of its window.
C16_CounterWithinLimit ==
    \A k \in DOMAIN redis :
        /\ k[3] = "minute" => redis[k].count <= limits[k[1]].minute
        /\ k[3] = "hour" => redis[k].count <= limits[k[1]].hour

\* C2: in the chat endpoint no (tenant, user) has more chat requests
\* admitted in one minute bucket than the tenant's rate_limit_per_minute;
\* the request beyond the limit is rejected with RateLimitExceededError and
\* generate_response is not called for it.
C2_ChatEnforcesTenantLimit ==
    /\ \A p \in Pairs : chat_window[p].admitted <= limits[p[1]].minute
    /\ (chat_last.tenant \in Tenants /\ ~chat_last.admitted) =>
            /\ chat_last.outcome = Raise("RateLimitExceededError")
            /\ chat_last.ai = NotCalled

\* C3: a model id that is not a key of the model registry ends in the
\* unsupported-model failure, no provider invocation is issued for it, and
\* no other model's configuration is used for it.
C3_UnknownModelNeverRouted ==
    (chat_last.admitted /\ chat_last.model \notin DOMAIN AIModelConfigs) =>
        /\ chat_last.ai.outcome = Raise("AIServiceError")
        /\ chat_last.ai.provider_calls = 0
        /\ chat_last.ai.config_used \notin DOMAIN AIModelConfigs

\* C4: every call of generate_response ends in a complete response object
\* or in the typed AIServiceError; no other exception type escapes.
C4_ResponseOrAIServiceError ==
    chat_last.admitted => chat_last.ai.outcome \in {"AIResponse", "AIServiceError"}

\* C25: rejection by the rate limiter is terminal: for a request it refused
\* there is no retrieval lookup, no message assembly, no provider invocation
\* and no write-back of the interaction, at no later time either, and the
\* request ends without a response.
C25_RejectionIsTerminal ==
    \A r \in Requests :
        LET q == mreq[r]
        IN  (q.pc # "idle" /\ ~q.admitted) =>
                /\ q.pc = "done"
                /\ q.rag_lookups = 0 /\ ~q.assembled
                /\ q.provider_calls = 0 /\ ~q.stored
                /\ q.outcome # "MultiProviderAIResponse"

\* A request with retrieval on and a model the tenant may use was refused by
\* the rate limiter, while another request of the run was served.
C25_Witness ==
    \E r, x \in Requests :
        /\ mreq[r].pc = "done" /\ ~mreq[r].admitted /\ mreq[r].rag = "long"
        /\ mreq[r].model = Sonnet
        /\ mreq[x].outcome = "MultiProviderAIResponse" /\ mreq[x].stored

-----------------------------------------------------------------------------
(* Claims about EnterpriseAIService                                        *)

\* C5: the number of invoke_model calls in flight for a model never exceeds
\* the model's max_concurrent: of max_concurrent + 1 requests in progress for
\* one model at least one is on the wait queue.
C5_InFlightWithinMaxConcurrent ==
    \A m \in DOMAIN EnterpriseModelConfigs :
        in_flight[m] <= EnterpriseModelConfigs[m].max_concurrent

\* C6: a request makes at most 3 invoke attempts; a successful request made
\* as many attempts as the index of its first successful attempt (its
\* transient failures plus one); a request whose provider failed transiently
\* 3 times made exactly 3 attempts and ended with the error; and retries
\* that ran out came after exactly 3 failed attempts.
C6_AttemptsUpToFirstSuccess ==
    \A r \in Requests :
        LET q == ereq[r]
        IN  /\ q.provider_calls <= stop_after_attempt
            /\ q.outcome = "EnterpriseAIResponse" => q.provider_calls = q.fails + 1
            /\ q.fails >= stop_after_attempt =>
                    /\ q.pc = "done" /\ q.outcome # "EnterpriseAIResponse"
                    /\ q.provider_calls = stop_after_attempt
            /\ (q.cause = "RetryError" /\ q.provider_calls > 0) =>
                    q.fails = stop_after_attempt

\* One request succeeded on its 3rd attempt after two transient failures,
\* and another ended with the error after three.
C6_Witness ==
    \E r, x \in Requests :
        /\ ereq[r].pc = "done" /\ ereq[r].outcome = "EnterpriseAIResponse"
        /\ ereq[r].fails = 2 /\ ereq[r].provider_calls = 3
        /\ ereq[x].pc = "done" /\ ereq[x].cause = "RetryError"
        /\ ereq[x].fails = 3 /\ ereq[x].provider_calls = 3

\* C7: a request whose timeout has elapsed is not pending on the provider nor
\* waiting for a retry: it has ended, as a timeout failure.
C7_TimeoutAborts ==
    \A r \in Requests :
        ereq[r].timed_out =>
            /\ ereq[r].pc = "done"
            /\ ereq[r].cause = "timeout"

C20_WaitsDouble ==
    \A r \in DOMAIN ereq :
        LET waits == ereq[r].waits
        IN  /\ Len(waits) >= 1 => waits[1] = WaitMin
            /\ Len(waits) >= 2 => waits[2] = 2 * WaitMin
            /\ \A i \in 1..Len(waits) : waits[i] <= WaitMax
            /\ \A i \in 2..Len(waits) : waits[i - 1] <= waits[i]

\* C21: permanent failures are not retried: a request for a model that is
\* not supported makes exactly one attempt, waits for no backoff and ends at
\* once with the failure, and a request that ended on a response it could not
\* parse made no attempt after that response.
C21_PermanentFailureNotRetried ==
    \A r \in DOMAIN ereq :
        LET q == ereq[r]
            unsupported == ~(startswith(q.model, "anthropic") \/ startswith(q.model, "meta"))
        IN  /\ (q.admitted /\ q.pc # "idle" /\ unsupported) =>
                    /\ q.pc = "done"
                    /\ q.attempt_number = 1
                    /\ q.waits = <<>>
            /\ q.cause = "parse" =>
                    /\ q.pc = "done"
                    /\ q.provider_calls = q.fails + 1

\* C22: after any sequence of completed requests average_latency is the
\* arithmetic mean of the processing times of the successful requests (0
\* before the first success): a failed request does not change it.
C22_AverageOverSuccessesOnly ==
    LET avg == lat_metrics.average_latency
    IN  IF lat_samples = <<>> THEN avg[1] = 0
        ELSE avg[1] * Len(lat_samples) = SeqSum(lat_samples) * avg[2]

\* C23: the assembled messages are the last N turns of the conversation
\* history (N = 10 in AIService, 20 in EnterpriseAIService) in their order,
\* followed by exactly one user message with the current prompt: at most
\* N + 1 messages, and only the oldest turns are left out.
C23_LastTurnsThenPrompt ==
    asm_out # None =>
        LET messages == asm_out[1]
            history == asm_in.conversation_history
            n == history_limit(asm_in.service)
            k == Min(Len(history), n)
            dropped == Len(history) - k
        IN  /\ Len(messages) = k + 1
            /\ Len(messages) <= n + 1
            /\ \A i \in 1..k :
                  LET turn == history[dropped + i]
                  IN  /\ messages[i].role = (IF turn.role = None THEN "user" ELSE turn.role[1])
                      /\ messages[i].content =
                            (IF turn.content = None THEN <<>> ELSE turn.content[1])
            /\ messages[k + 1] = [role |-> "user", content |-> asm_in.prompt]

\* A history longer than the limit was cut: the two oldest of 22 turns (12 in
\* AIService) are not among the messages, and the newest turn is the one
\* before the prompt.
C23_Witness ==
    /\ asm_out # None
    /\ Len(asm_in.conversation_history) = history_limit(asm_in.service) + 2
    /\ Len(asm_out[1]) = history_limit(asm_in.service) + 1
    /\ asm_out[1][1].content = <<"turn", 3>>
    /\ asm_out[1][history_limit(asm_in.service)].content =
           <<"turn", Len(asm_in.conversation_history)>>

-----------------------------------------------------------------------------
(* Claims about RAGService                                                 *)

\* C11: the context get_relevant_context returns holds only documents whose
\* similarity is at least similarity_threshold, at most `limit` of them, in
\* order of descending similarity; a document of similarity 0.9 is never
\* returned with the threshold 0.95; when the tenant has no more than
\* `limit` documents and the store answers, every document of the tenant that
\* reaches the threshold is returned; and with no document returned the
\* prompt sent on is the unaugmented prompt.
C11_ContextAboveThreshold ==
    rag_last.op = "context" =>
        LET c == rag_last.context
            own == {doc \in chroma : doc.tenant_id = rag_last.tenant}
        IN  /\ Len(c) <= rag_last.limit
            /\ (~rag_last.raised /\ Cardinality(own) <= rag_last.limit) =>
                    \A doc \in own :
                        similarity(doc.distance) >= rag_last.threshold =>
                            \E i \in 1..Len(c) : c[i] = doc
            /\ \A i \in 1..Len(c) : similarity(c[i].distance) >= rag_last.threshold
            /\ \A i, j \in 1..Len(c) :
                    i < j => similarity(c[i].distance) >= similarity(c[j].distance)
            /\ rag_last.threshold = 95 => \A i \in 1..Len(c) : similarity(c[i].distance) # 90
            /\ (c = <<>>) <=> (rag_last.prompt = "unaugmented")

\* A document of similarity 0.9 is in the tenant's collection, and the call
\* with the threshold 0.7 returned it among two documents.
C11_Witness ==
    /\ rag_last.op = "context" /\ rag_last.threshold = DefaultThreshold
    /\ Len(rag_last.context) = 2
    /\ \E i \in 1..2 : similarity(rag_last.context[i].distance) = 90
    /\ rag_last.prompt = "augmented"

C13_TenantPartition ==
    /\ rag_last.op \in {"context", "search"} =>
            \A i \in 1..Len(rag_last.context) :
                rag_last.context[i].tenant_id = rag_last.tenant
    /\ rag_last.op = "delete" =>
            \A doc \in rag_last.removed : doc.tenant_id = rag_last.tenant
    /\ \A doc \in chroma : doc.collection = collection_name(doc.tenant_id)

\* A tenant got a document of its own as context while another tenant holds
\* a document nearer to the query.
C13_Witness ==
    /\ rag_last.op = "context" /\ rag_last.context # <<>>
    /\ \E doc \in chroma :
            /\ doc.tenant_id # rag_last.tenant
            /\ doc.distance < rag_last.context[1].distance

-----------------------------------------------------------------------------
(* Claims about the application's routes                                   *)

\* C15: GET /, /health, /healthz and /ping are answered 200 with their fixed
\* payloads (message "Multi-tenant AI Platform"; status "healthy" and service
\* "multitenant-ai"; status "ok"; "pong"), whatever the tenant id and the
\* authentication of the request.
C15_HealthRoutesAnswer ==
    /\ http_last.path \in {"/", "/health", "/healthz", "/ping"} => http_last.status_code = 200
    /\ http_last.path = "/" => http_last.body.message = "Multi-tenant AI Platform"
    /\ http_last.path = "/health" =>
            http_last.body = [status |-> "healthy", service |-> "multitenant-ai"]
    /\ http_last.path = "/healthz" => http_last.body = [status |-> "ok"]
    /\ http_last.path = "/ping" => http_last.body = "pong"

-----------------------------------------------------------------------------
(* Claims about _calculate_cost                                            *)

Abs(x) == IF x < 0 THEN -x ELSE x

\* C10 as stated: cost(m, 0, 0) = 0, cost >= 0, and the rounded cost is
\* additive, cost(m, a1 + a2, b1 + b2) = cost(m, a1, b1) + cost(m, a2, b2).
\* It is stated for the calls in which no sum lies on a rounding tie, where
\* the result does not depend on the float's last bit.
C10_CostExactlyAdditive ==
    (cost_res.done /\ ~cost_res.tied) =>
        /\ cost_res.zero = 0
        /\ cost_res.first >= 0 /\ cost_res.second >= 0 /\ cost_res.whole >= 0
        /\ cost_res.whole = cost_res.first + cost_res.second

\* C10 as amended: cost(m, 0, 0) = 0, cost >= 0, and the rounded cost is
\* additive up to one unit of the rounding (1e-6 USD):
\* |cost(m, a1 + a2, b1 + b2) - cost(m, a1, b1) - cost(m, a2, b2)| <= 1e-6.
C10_CostAdditiveUpToRounding ==
    cost_res.done =>
        /\ cost_res.zero = 0
        /\ cost_res.first >= 0 /\ cost_res.second >= 0 /\ cost_res.whole >= 0
        /\ Abs(cost_res.whole - cost_res.first - cost_res.second) <= 1

\* A priced call whose two parts round differently from their sum.
C10_Witness ==
    /\ cost_res.done
    /\ cost_res.first > 0 /\ cost_res.second > 0
    /\ cost_res.whole # cost_res.first + cost_res.second

-----------------------------------------------------------------------------
(* Claims about MultiProviderAIService                                     *)

\* The tenant policy allows the model: its id is in allowed_models or
\* allowed_models holds "*", and its provider is in allowed_providers or
\* allowed_providers holds "*".
PolicyAllows(tenant_id, model) ==
    /\ model \in DOMAIN MultiModelConfigs
    /\ \/ model \in tenant_config[tenant_id].allowed_models
       \/ "*" \in tenant_config[tenant_id].allowed_models
    /\ \/ MultiModelConfigs[model].provider \in tenant_config[tenant_id].allowed_providers
       \/ "*" \in tenant_config[tenant_id].allowed_providers

C14_MeteredExactlyOnce ==
    LET ended == {r \in Requests : mreq[r].pc = "done"}
        failed == {r \in ended : mreq[r].outcome # "MultiProviderAIResponse"}
    IN  /\ \A r \in ended : mreq[r].metered = 1
        /\ metrics.total_requests = Cardinality(ended)
        /\ metrics.total_requests = metrics.successful_requests + metrics.failed_requests
        /\ metrics.failed_requests = Cardinality(failed)

====
